---------------------------- MODULE Spec2Model ----------------------------
(* Reminder engine of the research dashboard: the notifier configuration   *)
(* read from the environment, the Event and Todo rows of the entity store, *)
(* the two scheduled jobs (_check_deadlines, _send_daily_digest) and the   *)
(* messages the Discord and e-mail notifiers build; and, around it, the    *)
(* Researcher, DailyLog, PhDMilestone and AppSetting tables with their     *)
(* handlers, and the export of the store into an Obsidian vault.           *)
(*                                                                         *)
(* Dates are day numbers.  A nullable Date column holds NULL or a day; a   *)
(* nullable String column holds "" for NULL (the handlers store None for   *)
(* an empty input, and the notifiers only test such fields for truth).     *)
EXTENDS Integers, Sequences, FiniteSets, TLC

VARIABLES env, reminder_days, today, events, todos, tick,
          researchers, daily_logs, milestones, app_settings, vault, requests,
          clock, sched, running, users, sessions, response

\* The time of day, the scheduler with its triggers, the ticks in progress,
\* the users table, the sessions of the clients and the response to the
\* request just served.
more == <<clock, sched, running, users, sessions, response>>

\* The tables, the vault directory and the requests in flight that the
\* scheduled jobs and the event and todo handlers leave alone.
rest ==
  <<researchers, daily_logs, milestones, app_settings, vault, requests, more>>

vars == <<env, reminder_days, today, events, todos, tick, rest>>

---------------------------------------------------------------------------
(* Bounds of the model.                                                    *)

\* Rows the events table may hold at once.
MaxEvents == 2
\* Rows the todos table may hold at once.
MaxTodos == 2
\* Last day a deadline of the deadline-check runs falls on.
MaxDate == 2
\* Last day the clock reaches.
MaxDay == 1
\* Largest reminder offset an operator configures.
MaxOffset == 2

\* The value of a nullable Date column that holds no date.
NULL == -1

\* An environment variable that is not set (os.getenv gives None).
Unset == "<unset>"

\* Python truth of an optional string: None and "" are false.
Truthy(s) == s # Unset /\ s # ""

\* int(s) of scheduler.py:48 succeeds on these strings and raises ValueError
\* on the others ("" and "abc" among them).
IntStrings == {"587", "25"}

\* The days past the digest window that the calendar still holds.
PastWindow == 1

\* The digest window is today .. today + max(reminder_days) + 7.
DigestExtraDays == 7

\* The calendar: the days a date value may be.
Dates == 0..(MaxDay + MaxOffset + DigestExtraDays + PastWindow)

---------------------------------------------------------------------------
(* Environment configuration.                                              *)

CredValues == {"", "x"}
UrlValues == {Unset, "", "x"}
PortValues == {Unset, "", "587", "abc"}

Envs ==
  [DISCORD_WEBHOOK_URL : UrlValues, SMTP_SERVER : UrlValues,
   SMTP_USERNAME : CredValues, SMTP_PASSWORD : CredValues,
   EMAIL_TO : CredValues, SMTP_PORT : PortValues]

\* Environments in which every credential of a backend is given or none is,
\* and the port is left at its default.
PlainEnvs ==
  {e \in Envs : /\ e.SMTP_PORT = Unset
                /\ e.DISCORD_WEBHOOK_URL \in {"", "x"}
                /\ e.SMTP_SERVER \in {"", "x"}
                /\ e.SMTP_USERNAME = e.SMTP_SERVER
                /\ e.SMTP_PASSWORD = e.SMTP_SERVER
                /\ e.EMAIL_TO = e.SMTP_SERVER}

\* os.getenv("SMTP_PORT", "587")
SmtpPortString(e) == IF e.SMTP_PORT = Unset THEN "587" ELSE e.SMTP_PORT

\* all([smtp_server, smtp_user, smtp_pass, email_to])
EmailConfigured(e) ==
  /\ Truthy(e.SMTP_SERVER)
  /\ Truthy(e.SMTP_USERNAME)
  /\ Truthy(e.SMTP_PASSWORD)
  /\ Truthy(e.EMAIL_TO)

\* _get_notifiers with the port parsed before the credentials are tested.
GetNotifiersEagerPort(e) ==
  LET n1 == IF Truthy(e.DISCORD_WEBHOOK_URL) THEN <<"discord">> ELSE <<>>
  IN  IF SmtpPortString(e) \notin IntStrings
      THEN [raised |-> TRUE, notifiers |-> <<>>]
      ELSE IF EmailConfigured(e)
           THEN [raised |-> FALSE, notifiers |-> Append(n1, "email")]
           ELSE [raised |-> FALSE, notifiers |-> n1]

\* _get_notifiers: the kinds of the notifiers built, in order, or raised when
\* int() rejects the port of a fully configured e-mail backend.
GetNotifiers(e) ==
  LET n1 == IF Truthy(e.DISCORD_WEBHOOK_URL) THEN <<"discord">> ELSE <<>>
  IN  IF EmailConfigured(e)
      THEN IF SmtpPortString(e) \in IntStrings
           THEN [raised |-> FALSE, notifiers |-> Append(n1, "email")]
           ELSE [raised |-> TRUE, notifiers |-> <<>>]
      ELSE [raised |-> FALSE, notifiers |-> n1]

---------------------------------------------------------------------------
(* Sequence helpers.                                                       *)

Range(s) == {s[i] : i \in DOMAIN s}

RECURSIVE SetMax(_)
SetMax(S) ==
  LET x == CHOOSE y \in S : TRUE
  IN  IF S = {x} THEN x
      ELSE LET m == SetMax(S \ {x}) IN IF x > m THEN x ELSE m

RECURSIVE Flatten(_)
Flatten(ss) == IF ss = <<>> THEN <<>> ELSE Head(ss) \o Flatten(Tail(ss))

\* The elements of the set S of integers as an ascending sequence.
RECURSIVE Ascending(_)
Ascending(S) ==
  IF S = {} THEN <<>>
  ELSE LET m == CHOOSE x \in S : \A y \in S : x <= y
       IN  <<m>> \o Ascending(S \ {m})

---------------------------------------------------------------------------
(* Dates as text.                                                          *)

\* date.isoformat(): the text of day d.
IsoFormat(d) == "day" \o ToString(d)

\* The texts date.fromisoformat accepts; it raises ValueError on any other.
IsoStrings == {IsoFormat(d) : d \in Dates}

\* date.fromisoformat(s) for s in IsoStrings.
FromIsoFormat(s) == CHOOSE d \in Dates : IsoFormat(d) = s

\* Date inputs of a form: empty, the given dates, or text that is no date.
DateInputs(days) == {""} \cup {IsoFormat(d) : d \in days} \cup {"soon"}

\* str.title() of the category names.
TitleCase(c) ==
  CASE c = "conference" -> "Conference"
    [] c = "journal" -> "Journal"
    [] c = "call_for_chapters" -> "Call_For_Chapters"
    [] OTHER -> c

---------------------------------------------------------------------------
(* Events: rows and the handlers that write them.                          *)

EventIds == 1..MaxEvents

\* tick is the log of the scheduled job that ran in the step just taken: the
\* notifiers it built, the notifier calls it made, the messages they tried to
\* send, the errors it logged and whether it raised.  It is Idle after any
\* other step.
Idle ==
  [job |-> "none", raised |-> FALSE, notifiers |-> <<>>, calls |-> <<>>,
   posts |-> <<>>, errors |-> <<>>]

\* Event.days_until_deadline, evaluated on day now.
DaysUntilDeadline(e, now) ==
  IF e.submission_deadline # NULL THEN e.submission_deadline - now ELSE NULL

\* The primary key the store gives the next inserted row.
NextId(rows) == IF DOMAIN rows = {} THEN 1 ELSE SetMax(DOMAIN rows) + 1

\* request.form.get(key, default): the input of the key, or the default
\* when the form lacks the key.
FormGet(form, key, default) ==
  IF key \in DOMAIN form THEN form[key] ELSE default

\* Whether _event_from_form returns: every non-empty date input must parse.
EventFormParses(form) ==
  \/ FormGet(form, "submission_deadline", "") = ""
  \/ FormGet(form, "submission_deadline", "") \in IsoStrings

\* _event_from_form: the fields of the row after the form is applied
\* (strip() is applied to inputs that carry no surrounding blanks).
EventFromForm(id, form) ==
  [id |-> id,
   title |-> FormGet(form, "title", ""),
   category |-> FormGet(form, "category", "conference"),
   website |-> FormGet(form, "website", ""),
   relevance_tags |-> FormGet(form, "relevance_tags", ""),
   submission_deadline |->
     IF FormGet(form, "submission_deadline", "") # ""
     THEN FromIsoFormat(form.submission_deadline) ELSE NULL]

\* POST /events/new: pinned takes the column default.
event_new(form) ==
  /\ NextId(events) <= MaxEvents
  /\ EventFormParses(form)
  /\ events' = events @@
       (NextId(events) :>
          ([pinned |-> FALSE] @@ EventFromForm(NextId(events), form)))
  /\ tick' = Idle
  /\ UNCHANGED <<rest, env, reminder_days, today, todos>>

\* POST /events/<id>/edit
event_edit(id, form) ==
  /\ id \in DOMAIN events
  /\ EventFormParses(form)
  /\ events' = [events EXCEPT
                   ![id] = [pinned |-> @.pinned] @@ EventFromForm(id, form)]
  /\ tick' = Idle
  /\ UNCHANGED <<rest, env, reminder_days, today, todos>>

\* POST /events/<id>/delete
event_delete(id) ==
  /\ id \in DOMAIN events
  /\ events' = [i \in DOMAIN events \ {id} |-> events[i]]
  /\ tick' = Idle
  /\ UNCHANGED <<rest, env, reminder_days, today, todos>>

\* POST /events/<id>/pin
event_pin(id) ==
  /\ id \in DOMAIN events
  /\ events' = [events EXCEPT ![id].pinned = ~@]
  /\ tick' = Idle
  /\ UNCHANGED <<rest, env, reminder_days, today, todos>>

\* The stored events in primary-key order, as Query.all() lists them.
AllEvents(rows) == [i \in 1..Cardinality(DOMAIN rows) |-> rows[Ascending(DOMAIN rows)[i]]]

\* Midnight passes.
NextDay ==
  /\ today < MaxDay
  /\ today' = today + 1
  /\ tick' = Idle
  /\ UNCHANGED <<rest, env, reminder_days, events, todos>>

---------------------------------------------------------------------------
(* Notifier backends.  A text built by an f-string is the sequence of its  *)
(* literal and interpolated parts; a method gives the outbound messages it *)
(* tried to send and whether it raised.  fail tells whether the transport  *)
(* (requests.post, smtplib) raises on this send.                           *)

Backends == {"discord", "email"}

\* Colours of integrations.py.
DiscordUrgent == 16711680
DiscordWarning == 16755200
DiscordBlurple == 5793266
\* days_until_deadline <= 3 selects the urgent colour.
UrgentDays == 3
\* Rows the e-mail digest colours as warning: days_until_deadline <= 7.
WarningDays == 7
\* Entries the digests show at most.
DiscordDigestCap == 10
EmailEventCap == 15
EmailTodoCap == 10

Min(a, b) == IF a < b THEN a ELSE b

\* s[:n]
Prefix(s, n) == SubSeq(s, 1, Min(n, Len(s)))

\* DiscordNotifier.send_message: one POST of the payload.
DiscordSendMessage(content, embeds, fail) ==
  [raised |-> fail,
   posts |-> <<[backend |-> "discord", content |-> content,
                embeds |-> embeds, delivered |-> ~fail]>>]

\* The embed of DiscordNotifier.send_deadline_reminder.
DiscordReminderEmbed(e, now) ==
  LET base == [title |-> <<"Deadline Reminder: ", e.title>>,
               color |-> IF DaysUntilDeadline(e, now) <= UrgentDays
                         THEN DiscordUrgent ELSE DiscordWarning,
               fields |->
                 <<[name |-> "Category", value |-> TitleCase(e.category)],
                   [name |-> "Days Left",
                    value |-> ToString(DaysUntilDeadline(e, now))],
                   [name |-> "Deadline",
                    value |-> IsoFormat(e.submission_deadline)]>>
                 \o (IF Truthy(e.relevance_tags)
                     THEN <<[name |-> "Tags", value |-> e.relevance_tags]>>
                     ELSE <<>>)]
  IN  IF Truthy(e.website) THEN base @@ [url |-> e.website] ELSE base

\* DiscordNotifier.send_deadline_reminder; None <= 3 raises TypeError.
DiscordSendDeadlineReminder(e, now, fail) ==
  IF e.submission_deadline = NULL
  THEN [raised |-> TRUE, posts |-> <<>>]
  ELSE DiscordSendMessage(<<>>, <<DiscordReminderEmbed(e, now)>>, fail)

\* EmailNotifier._send: one SMTP session sending one message.
EmailSend(subject, html, fail) ==
  [raised |-> fail,
   posts |-> <<[backend |-> "email", subject |-> subject, html |-> html,
                delivered |-> ~fail]>>]

\* EmailNotifier.send_deadline_reminder; None <= 3 raises TypeError.
EmailSendDeadlineReminder(e, now, fail) ==
  IF e.submission_deadline = NULL
  THEN [raised |-> TRUE, posts |-> <<>>]
  ELSE EmailSend(
         <<"[PPML Dashboard] Deadline: ", e.title, " (",
           ToString(DaysUntilDeadline(e, now)), " days left)">>,
         <<"<div style='background: ",
           IF DaysUntilDeadline(e, now) <= UrgentDays
           THEN "#dc2626" ELSE "#f59e0b",
           "'><h2>Deadline Reminder</h2></div><h3>", e.title,
           "</h3><p><strong>Deadline:</strong> ",
           IsoFormat(e.submission_deadline),
           "</p><p><strong>Days remaining:</strong> ",
           ToString(DaysUntilDeadline(e, now)),
           "</p><p><strong>Category:</strong> ", TitleCase(e.category), "</p>">>
         \o (IF Truthy(e.website)
             THEN <<"<p><a href='", e.website, "'>Visit website</a></p>">>
             ELSE <<>>),
         fail)

\* notifier.send_deadline_reminder(event) of the notifier of this kind.
SendDeadlineReminder(kind, e, now, fail) ==
  IF kind = "discord"
  THEN DiscordSendDeadlineReminder(e, now, fail)
  ELSE EmailSendDeadlineReminder(e, now, fail)

\* The line of one event in the Discord digest.
DiscordDeadlineLine(e, now) ==
  <<"**", e.title, "** - ", ToString(DaysUntilDeadline(e, now)),
    " days left (", IsoFormat(e.submission_deadline), ")">>

\* DiscordNotifier.send_daily_digest: an embed per non-empty list, and a
\* message only when there is an embed.  None.isoformat() raises.
DiscordSendDailyDigest(upcoming, pending, now, fail) ==
  LET shown == Prefix(upcoming, DiscordDigestCap)
      embeds ==
        (IF upcoming # <<>>
         THEN <<[title |-> <<"Upcoming Deadlines">>,
                 description |->
                   [i \in 1..Len(shown) |-> DiscordDeadlineLine(shown[i], now)],
                 color |-> DiscordWarning]>>
         ELSE <<>>)
        \o
        (IF pending # <<>>
         THEN <<[title |-> <<"Pending Todos (", ToString(Len(pending)), ")">>,
                 description |->
                   [i \in 1..Len(Prefix(pending, DiscordDigestCap)) |->
                      <<"* ", pending[i].title>>],
                 color |-> DiscordBlurple]>>
         ELSE <<>>)
  IN  IF \E i \in 1..Len(shown) : shown[i].submission_deadline = NULL
      THEN [raised |-> TRUE, posts |-> <<>>]
      ELSE IF embeds # <<>>
           THEN DiscordSendMessage(<<"**Daily Digest - ", IsoFormat(now), "**">>,
                                   embeds, fail)
           ELSE [raised |-> FALSE, posts |-> <<>>]

\* {"high": ..., "medium": ..., "low": ...}.get(t.priority, default)
PriorityIcon(p) ==
  CASE p = "high" -> ":red:"
    [] p = "medium" -> ":yellow:"
    [] p = "low" -> ":green:"
    [] OTHER -> ":white:"

\* The table row of one event in the e-mail digest.
EmailDeadlineRow(e, now) ==
  <<"<tr><td>">>
  \o (IF Truthy(e.website)
      THEN <<"<a href='", e.website, "'>", e.title, "</a>">>
      ELSE <<e.title>>)
  \o <<"</td><td>", e.category, "</td><td style='color:",
       IF DaysUntilDeadline(e, now) <= UrgentDays THEN "#dc2626"
       ELSE IF DaysUntilDeadline(e, now) <= WarningDays THEN "#f59e0b"
       ELSE "#10b981",
       "'>", ToString(DaysUntilDeadline(e, now)), " days</td><td>",
       IsoFormat(e.submission_deadline), "</td></tr>">>

\* The list item of one todo in the e-mail digest.
EmailTodoItem(t) ==
  <<"<li>", PriorityIcon(t.priority), " ", t.title>>
  \o (IF t.due_date # NULL THEN <<" - due ", IsoFormat(t.due_date)>> ELSE <<>>)
  \o <<"</li>">>

\* date.strftime('%A, %B %d, %Y')
LongDate(d) == "weekday, month " \o ToString(d)

\* EmailNotifier.send_daily_digest: the html is its two sections, each a
\* sequence of lines; an empty list gives the section its "No ..." line.
EmailSendDailyDigest(upcoming, pending, now, fail) ==
  LET shown == Prefix(upcoming, EmailEventCap)
      rows == [i \in 1..Len(shown) |-> EmailDeadlineRow(shown[i], now)]
      items == [i \in 1..Len(Prefix(pending, EmailTodoCap)) |->
                  EmailTodoItem(pending[i])]
  IN  IF \E i \in 1..Len(shown) : shown[i].submission_deadline = NULL
      THEN [raised |-> TRUE, posts |-> <<>>]
      ELSE EmailSend(
             <<"[PPML Dashboard] Daily Digest - ", IsoFormat(now)>>,
             [date |-> LongDate(now),
              deadlines |->
                IF rows # <<>>
                THEN <<<<"<table><tr><th>Event</th><th>Type</th><th>Remaining</th><th>Date</th></tr>">>>>
                     \o rows \o <<<<"</table>">>>>
                ELSE <<<<"<p>No upcoming deadlines.</p>">>>>,
              tasks_heading |-> <<"Pending Tasks (", ToString(Len(pending)), ")">>,
              tasks |->
                IF items # <<>>
                THEN <<<<"<ul>">>>> \o items \o <<<<"</ul>">>>>
                ELSE <<<<"<p>No pending tasks.</p>">>>>],
             fail)

\* notifier.send_daily_digest(upcoming, pending_todos) of this kind.
SendDailyDigest(kind, upcoming, pending, now, fail) ==
  IF kind = "discord"
  THEN DiscordSendDailyDigest(upcoming, pending, now, fail)
  ELSE EmailSendDailyDigest(upcoming, pending, now, fail)

---------------------------------------------------------------------------
(* The deadline-check job.                                                 *)

\* The query with a range in place of the equality: every event due on or
\* before the target date.
EventsDueBy(rows, target) ==
  SelectSeq(AllEvents(rows),
            LAMBDA e : e.submission_deadline # NULL
                       /\ e.submission_deadline <= target)

\* Event.query.filter(Event.submission_deadline == target_date).all();
\* in SQL a NULL deadline equals no date.
EventsDueOn(rows, target) ==
  SelectSeq(AllEvents(rows),
            LAMBDA e : e.submission_deadline # NULL
                       /\ e.submission_deadline = target)

\* The loops with the offset loop left after its first pass.
ReminderPlanFirstOffset(rows, days, notifiers, now) ==
  LET due == EventsDueOn(rows, now + days[1])
  IN  Flatten([j \in 1..Len(due) |->
        [k \in 1..Len(notifiers) |->
          [kind |-> notifiers[k], event |-> due[j]]]])

\* The calls the three nested loops of _check_deadlines reach, in order.
ReminderPlan(rows, days, notifiers, now) ==
  Flatten([i \in 1..Len(days) |->
    LET due == EventsDueOn(rows, now + days[i])
    IN  Flatten([j \in 1..Len(due) |->
          [k \in 1..Len(notifiers) |->
            [kind |-> notifiers[k], event |-> due[j]]]])])

\* app.logger.error(f"Failed to send reminder for {event.title} via {kind}: {e}")
ReminderError(c) ==
  <<"Failed to send reminder for ", c.event.title, " via ", c.kind>>

\* The loop body without its try/except: the first raising call ends the job.
RECURSIVE RunRemindersUncaught(_, _, _, _)
RunRemindersUncaught(plan, now, fails, out) ==
  IF plan = <<>> THEN out
  ELSE LET c == Head(plan)
           r == SendDeadlineReminder(c.kind, c.event, now,
                                     <<c.kind, c.event.id>> \in fails)
           out1 == [out EXCEPT !.calls = Append(@, c), !.posts = @ \o r.posts]
       IN  IF r.raised
           THEN [out1 EXCEPT !.raised = TRUE]
           ELSE RunRemindersUncaught(Tail(plan), now, fails, out1)

\* The body of the loops of _check_deadlines over the calls of plan: each
\* call is tried, and an exception it raises is logged and swallowed.
RECURSIVE RunReminders(_, _, _, _)
RunReminders(plan, now, fails, out) ==
  IF plan = <<>> THEN out
  ELSE LET c == Head(plan)
           r == SendDeadlineReminder(c.kind, c.event, now,
                                     <<c.kind, c.event.id>> \in fails)
           out1 == [out EXCEPT !.calls = Append(@, c), !.posts = @ \o r.posts]
       IN  IF r.raised
           THEN RunReminders(Tail(plan), now, fails,
                             [out1 EXCEPT !.errors = Append(@, ReminderError(c))])
           ELSE RunReminders(Tail(plan), now, fails, out1)

\* The log of one run of _check_deadlines(app, days) on day now.
CheckDeadlinesResult(e, rows, days, now, fails) ==
  LET g == GetNotifiers(e)
      start == [Idle EXCEPT !.job = "deadline"]
  IN  IF g.raised THEN [start EXCEPT !.raised = TRUE]
      ELSE IF g.notifiers = <<>> THEN start
      ELSE RunReminders(ReminderPlan(rows, days, g.notifiers, now), now, fails,
                        [start EXCEPT !.notifiers = g.notifiers])

\* The sends of a deadline-check run that the transport may fail.
ReminderSends(e, rows, days, now) ==
  LET g == GetNotifiers(e)
  IN  {<<c.kind, c.event.id>> :
         c \in Range(ReminderPlan(rows, days, g.notifiers, now))}

\* The deadline_check job fires.
check_deadlines ==
  /\ \E fails \in SUBSET ReminderSends(env, events, reminder_days, today) :
       tick' = CheckDeadlinesResult(env, events, reminder_days, today, fails)
  /\ UNCHANGED <<rest, env, reminder_days, today, events, todos>>

---------------------------------------------------------------------------
(* Todos: rows and the handlers that write them.                           *)

TodoIds == 1..MaxTodos

\* Whether a date input of a todo form parses (empty means no date).
DateInputParses(s) == s = "" \/ s \in IsoStrings

ParseDateInput(s) == IF s # "" THEN FromIsoFormat(s) ELSE NULL

\* POST /todos/new: status takes the column default.
todo_new(form) ==
  /\ NextId(todos) <= MaxTodos
  /\ DateInputParses(form.due_date)
  /\ todos' = todos @@
       (NextId(todos) :>
          [id |-> NextId(todos), title |-> form.title,
           priority |-> form.priority,
           due_date |-> ParseDateInput(form.due_date), status |-> "pending"])
  /\ tick' = Idle
  /\ UNCHANGED <<rest, env, reminder_days, today, events>>

\* POST /todos/<tid>/update: only the keys the form carries are written;
\* a key the form lacks has the value Unset here.
todo_update(tid, form) ==
  /\ tid \in DOMAIN todos
  /\ form.due_date = Unset \/ DateInputParses(form.due_date)
  /\ todos' = [todos EXCEPT ![tid] =
       [id |-> @.id,
        title |-> IF form.title # Unset THEN form.title ELSE @.title,
        priority |-> IF form.priority # Unset THEN form.priority ELSE @.priority,
        due_date |-> IF form.due_date # Unset
                     THEN ParseDateInput(form.due_date) ELSE @.due_date,
        status |-> IF form.status # Unset THEN form.status ELSE @.status]]
  /\ tick' = Idle
  /\ UNCHANGED <<rest, env, reminder_days, today, events>>

\* POST /todos/<tid>/delete
todo_delete(tid) ==
  /\ tid \in DOMAIN todos
  /\ todos' = [i \in DOMAIN todos \ {tid} |-> todos[i]]
  /\ tick' = Idle
  /\ UNCHANGED <<rest, env, reminder_days, today, events>>

---------------------------------------------------------------------------
(* The daily-digest job.                                                   *)

\* The sequences that list every row of rows whose key is in ids once, in an
\* order that never has b ahead of a for a pair <<a, b>> of before.  Rows
\* the order does not separate come in any order, as ORDER BY leaves them.
OrderedBy(rows, ids, before) ==
  {[i \in 1..Len(p) |-> rows[p[i]]] :
     p \in {q \in [1..Cardinality(ids) -> ids] :
              /\ \A i, j \in DOMAIN q : i # j => q[i] # q[j]
              /\ \A i, j \in DOMAIN q : i < j => <<q[j], q[i]>> \notin before}}

\* The filter with the first reminder day in place of the largest.
IsUpcomingFirstOffset(e, days, now) ==
  /\ e.submission_deadline # NULL
  /\ e.submission_deadline >= now
  /\ e.submission_deadline <= now + (days[1] + DigestExtraDays)

\* The filter of the upcoming query of _send_daily_digest.
IsUpcoming(e, days, now) ==
  /\ e.submission_deadline # NULL
  /\ e.submission_deadline >= now
  /\ e.submission_deadline <= now + (SetMax(Range(days)) + DigestExtraDays)

\* order_by(Event.submission_deadline)
DeadlineBefore(a, b) == a.submission_deadline < b.submission_deadline

\* The results the upcoming query may give.
UpcomingResults(rows, days, now) ==
  LET ids == {id \in DOMAIN rows : IsUpcoming(rows[id], days, now)}
  IN  OrderedBy(rows, ids,
                {p \in ids \X ids : DeadlineBefore(rows[p[1]], rows[p[2]])})

\* The place of a priority string in the ascending order of the strings
\* ("high" < "low" < "medium" < "urgent").
StringRank(p) ==
  CASE p = "high" -> 1
    [] p = "low" -> 2
    [] p = "medium" -> 3
    [] OTHER -> 4

\* order_by(Todo.due_date.asc().nullslast(), Todo.priority)
TodoBefore(a, b) ==
  \/ a.due_date # NULL /\ b.due_date = NULL
  \/ a.due_date # NULL /\ b.due_date # NULL /\ a.due_date < b.due_date
  \/ a.due_date = b.due_date /\ StringRank(a.priority) < StringRank(b.priority)

\* Todo.status.in_(["pending", "in_progress"])
IsPending(t) == t.status \in {"pending", "in_progress"}

\* The results the pending-todos query may give.
PendingResults(rows) ==
  LET ids == {id \in DOMAIN rows : IsPending(rows[id])}
  IN  OrderedBy(rows, ids,
                {p \in ids \X ids : TodoBefore(rows[p[1]], rows[p[2]])})

\* app.logger.error(f"Failed to send daily digest via {kind}: {e}")
DigestError(kind) == <<"Failed to send daily digest via ", kind>>

\* The loop of _send_daily_digest over the notifiers from the i-th on: each
\* call is tried, and an exception it raises is logged and swallowed.
RECURSIVE RunDigest(_, _, _, _, _, _, _)
RunDigest(notifiers, i, upcoming, pending, now, fails, out) ==
  IF i > Len(notifiers) THEN out
  ELSE LET kind == notifiers[i]
           r == SendDailyDigest(kind, upcoming, pending, now, kind \in fails)
           out1 == [out EXCEPT
                      !.calls = Append(@, [kind |-> kind, upcoming |-> upcoming,
                                           pending |-> pending]),
                      !.posts = @ \o r.posts]
       IN  RunDigest(notifiers, i + 1, upcoming, pending, now, fails,
                     IF r.raised
                     THEN [out1 EXCEPT !.errors = Append(@, DigestError(kind))]
                     ELSE out1)

\* The log of one run of _send_daily_digest(app, days) on day now, with the
\* results upcoming and pending of its two queries.
SendDailyDigestResult(e, days, now, upcoming, pending, fails) ==
  LET g == GetNotifiers(e)
      start == [Idle EXCEPT !.job = "digest"]
  IN  IF g.raised THEN [start EXCEPT !.raised = TRUE]
      ELSE IF g.notifiers = <<>> THEN start
      ELSE RunDigest(g.notifiers, 1, upcoming, pending, now, fails,
                     [start EXCEPT !.notifiers = g.notifiers])

\* The daily_digest job fires.
send_daily_digest ==
  /\ \E upcoming \in UpcomingResults(events, reminder_days, today),
        pending \in PendingResults(todos),
        fails \in SUBSET Range(GetNotifiers(env).notifiers) :
       tick' = SendDailyDigestResult(env, reminder_days, today,
                                     upcoming, pending, fails)
  /\ UNCHANGED <<rest, env, reminder_days, today, events, todos>>

---------------------------------------------------------------------------
(* Settings: the key-value rows of AppSetting and the settings page.       *)

\* The keys the settings page saves, in the order it saves them.
SettingKeys ==
  <<"notion_api_key", "notion_events_db_id", "notion_todos_db_id",
    "obsidian_vault_path", "discord_webhook_url", "smtp_server", "smtp_port",
    "smtp_username", "smtp_password", "email_to", "reminder_days_before",
    "daily_digest_hour">>

\* AppSetting.query.filter_by(key=key): the rows with this key.
SettingRows(rows, key) == {id \in DOMAIN rows : rows[id].key = key}

\* .first() of that query.
FirstSetting(rows, key) ==
  CHOOSE id \in SettingRows(rows, key) :
    \A other \in SettingRows(rows, key) : id <= other

\* AppSetting.get(key, default)
AppSettingGet(rows, key, default) ==
  IF SettingRows(rows, key) # {}
  THEN rows[FirstSetting(rows, key)].value ELSE default

\* AppSetting.set with the lookup left out: a row is added on every call.
AppSettingSetAlwaysAdds(rows, key, value) ==
  rows @@ (NextId(rows) :> [id |-> NextId(rows), key |-> key, value |-> value])

\* AppSetting.set(key, value)
AppSettingSet(rows, key, value) ==
  IF SettingRows(rows, key) # {}
  THEN [rows EXCEPT ![FirstSetting(rows, key)].value = value]
  ELSE rows @@ (NextId(rows) :> [id |-> NextId(rows), key |-> key,
                                 value |-> value])

\* The loop of save_integrations over the keys from the first of keys on
\* (strip() is applied to inputs that carry no surrounding blanks).
RECURSIVE SaveIntegrations(_, _, _)
SaveIntegrations(rows, keys, form) ==
  IF keys = <<>> THEN rows
  ELSE SaveIntegrations(AppSettingSet(rows, Head(keys), form[Head(keys)]),
                        Tail(keys), form)

\* POST /settings with action=save_integrations
save_integrations(form) ==
  /\ app_settings' = SaveIntegrations(app_settings, SettingKeys, form)
  /\ tick' = Idle
  /\ UNCHANGED <<more, env, reminder_days, today, events, todos, researchers,
                 daily_logs, milestones, vault, requests>>

---------------------------------------------------------------------------
(* Researchers and daily logs.  A name is the sequence of its characters.  *)
(* A handler that reads the store and commits later is two steps, the read *)
(* and the commit, with its request in flight in between: other requests   *)
(* are served in parallel and may commit between the two.                  *)

\* Rows the researchers table may hold at once.
MaxResearchers == 2
\* Rows the daily_logs table may hold at once.
MaxLogs == 2
\* Requests that may be in flight at once.
MaxRequests == 2

ResearcherIds == 1..MaxResearchers

\* POST /researchers/new (strip() is applied to inputs that carry no
\* surrounding blanks; an empty affiliation is stored as None).
researcher_new(form) ==
  /\ NextId(researchers) <= MaxResearchers
  /\ researchers' = researchers @@
       (NextId(researchers) :>
          [id |-> NextId(researchers), name |-> form.name,
           affiliation |-> form.affiliation])
  /\ tick' = Idle
  /\ UNCHANGED <<more, env, reminder_days, today, events, todos, daily_logs,
                 milestones, app_settings, vault, requests>>

\* POST /researchers/<rid>/delete
researcher_delete(rid) ==
  /\ rid \in DOMAIN researchers
  /\ researchers' = [i \in DOMAIN researchers \ {rid} |-> researchers[i]]
  /\ tick' = Idle
  /\ UNCHANGED <<more, env, reminder_days, today, events, todos, daily_logs,
                 milestones, app_settings, vault, requests>>

\* The slot a request that arrives now is served in.
FreeSlot == CHOOSE r \in 1..MaxRequests :
              r \notin DOMAIN requests /\ \A q \in 1..(r - 1) : q \in DOMAIN requests

\* The requests in flight without the one in slot r.
Finished(r) == [q \in DOMAIN requests \ {r} |-> requests[q]]

\* request.form.get("log_date", date.today().isoformat())
LogDateString(form, now) ==
  IF form.log_date = Unset THEN IsoFormat(now) ELSE form.log_date

\* float(request.form.get("hours_worked", 0) or 0) returns on these inputs
\* and raises ValueError on the others.
HoursStrings == {"", "2"}

HoursWorked(s) == IF s = "" THEN 0 ELSE 2

\* DailyLog.query.filter_by(log_date=d).first(): the id of the row, or NULL.
LogOn(rows, d) ==
  IF \E id \in DOMAIN rows : rows[id].log_date = d
  THEN CHOOSE id \in DOMAIN rows :
         /\ rows[id].log_date = d
         /\ \A other \in DOMAIN rows : rows[other].log_date = d => id <= other
  ELSE NULL

\* POST /daily-log/save up to its query: the date is parsed and the log of
\* that date is looked up.  A date or an hours input that does not parse
\* makes the handler raise before its commit, which leaves the store as it
\* is.
daily_log_save_query(form) ==
  /\ Cardinality(DOMAIN requests) < MaxRequests
  /\ LogDateString(form, today) \in IsoStrings
  /\ form.hours_worked \in HoursStrings
  /\ requests' = requests @@
       (FreeSlot :>
          [handler |-> "daily_log_save", form |-> form,
           log_date |-> FromIsoFormat(LogDateString(form, today)),
           found |-> LogOn(daily_logs, FromIsoFormat(LogDateString(form, today)))])
  /\ tick' = Idle
  /\ UNCHANGED <<more, env, reminder_days, today, events, todos, researchers,
                 daily_logs, milestones, app_settings, vault>>

\* The fields daily_log_save assigns to the row it found or made.
LogFields(id, r) ==
  [id |-> id, log_date |-> r.log_date, content |-> r.form.content,
   hours_worked |-> HoursWorked(r.form.hours_worked), mood |-> r.form.mood]

\* The commit with no UNIQUE constraint on log_date to reject an INSERT.
LogsAfterCommitNoUnique(rows, r) ==
  IF r.found # NULL THEN [rows EXCEPT ![r.found] = LogFields(r.found, r)]
  ELSE rows @@ (NextId(rows) :> LogFields(NextId(rows), r))

\* db.session.commit() of daily_log_save: an UPDATE of the row found, or an
\* INSERT, which the UNIQUE constraint on log_date rejects with an
\* IntegrityError when a row of that date has been committed meanwhile.
LogsAfterCommit(rows, r) ==
  IF r.found # NULL THEN [rows EXCEPT ![r.found] = LogFields(r.found, r)]
  ELSE IF LogOn(rows, r.log_date) # NULL THEN rows
  ELSE rows @@ (NextId(rows) :> LogFields(NextId(rows), r))

\* POST /daily-log/save from its query on: the fields are set and committed.
daily_log_save_commit(r) ==
  /\ r \in DOMAIN requests
  /\ requests[r].handler = "daily_log_save"
  /\ requests[r].found # NULL \/ NextId(daily_logs) <= MaxLogs
  /\ daily_logs' = LogsAfterCommit(daily_logs, requests[r])
  /\ requests' = Finished(r)
  /\ tick' = Idle
  /\ UNCHANGED <<more, env, reminder_days, today, events, todos, researchers,
                 milestones, app_settings, vault>>

---------------------------------------------------------------------------
(* PhD milestones.                                                         *)

\* Rows the phd_milestones table may hold at once.
MaxMilestones == 2

\* Largest sort_order a new milestone is given.
OrderLimit == 3

MilestoneIds == 1..MaxMilestones

\* db.session.query(db.func.max(PhDMilestone.sort_order)).scalar() or 0
MaxSortOrder(rows) ==
  IF DOMAIN rows = {} THEN 0
  ELSE SetMax({rows[id].sort_order : id \in DOMAIN rows})

\* POST /timeline/new up to its max query: the row is built from the form
\* (status defaults to pending, completed_date is not set) and the largest
\* sort_order is read.  A target date that does not parse makes the handler
\* raise before the query.
milestone_new_query(form) ==
  /\ Cardinality(DOMAIN requests) < MaxRequests
  /\ DateInputParses(form.target_date)
  /\ requests' = requests @@
       (FreeSlot :>
          [handler |-> "milestone_new", form |-> form,
           max_order |-> MaxSortOrder(milestones)])
  /\ tick' = Idle
  /\ UNCHANGED <<more, env, reminder_days, today, events, todos, researchers,
                 daily_logs, milestones, app_settings, vault>>

\* The row milestone_new adds for the request r.
NewMilestone(id, r) ==
  [id |-> id, title |-> r.form.title,
   status |-> IF r.form.status = Unset THEN "pending" ELSE r.form.status,
   target_date |-> ParseDateInput(r.form.target_date),
   completed_date |-> NULL,
   sort_order |-> r.max_order + 1]

\* POST /timeline/new from its max query on: sort_order is set and the row
\* is added and committed.
milestone_new_commit(r) ==
  /\ r \in DOMAIN requests
  /\ requests[r].handler = "milestone_new"
  /\ NextId(milestones) <= MaxMilestones
  /\ requests[r].max_order + 1 <= OrderLimit
  /\ milestones' = milestones @@
       (NextId(milestones) :> NewMilestone(NextId(milestones), requests[r]))
  /\ requests' = Finished(r)
  /\ tick' = Idle
  /\ UNCHANGED <<more, env, reminder_days, today, events, todos, researchers,
                 daily_logs, app_settings, vault>>

\* The row after milestone_update has applied the keys the form carries (a
\* key the form lacks has the value Unset here).
UpdatedMilestone(m, form, now) ==
  LET status == IF form.status # Unset THEN form.status ELSE m.status
  IN  [id |-> m.id,
       title |-> IF form.title # Unset THEN form.title ELSE m.title,
       status |-> status,
       completed_date |->
         IF form.status # Unset /\ status = "completed"
            /\ m.completed_date = NULL
         THEN now ELSE m.completed_date,
       target_date |-> IF form.target_date # Unset
                       THEN ParseDateInput(form.target_date) ELSE m.target_date,
       sort_order |-> m.sort_order]

\* POST /timeline/<mid>/update; a target date that does not parse makes the
\* handler raise before its commit.
milestone_update(mid, form) ==
  /\ mid \in DOMAIN milestones
  /\ form.target_date = Unset \/ DateInputParses(form.target_date)
  /\ milestones' = [milestones EXCEPT ![mid] = UpdatedMilestone(@, form, today)]
  /\ tick' = Idle
  /\ UNCHANGED <<more, env, reminder_days, today, events, todos, researchers,
                 daily_logs, app_settings, vault, requests>>

\* POST /timeline/<mid>/delete
milestone_delete(mid) ==
  /\ mid \in DOMAIN milestones
  /\ milestones' = [i \in DOMAIN milestones \ {mid} |-> milestones[i]]
  /\ tick' = Idle
  /\ UNCHANGED <<more, env, reminder_days, today, events, todos, researchers,
                 daily_logs, app_settings, vault, requests>>

---------------------------------------------------------------------------
(* The Obsidian export.  The vault maps the path of a file, its directory  *)
(* and its name, to the lines of the file; a line is the sequence of the   *)
(* literal and interpolated parts of its f-string, a title or a name being *)
(* spliced in character by character.  The columns that the rows of this   *)
(* model leave out are rendered by the same pattern and left out here.     *)

\* The characters of the forms on which str.isalnum() is true.
AlnumChars == {"A", "B", "1"}

\* c.isalnum() or c in (' ', '-', '_')
IsKept(c) == c \in AlnumChars \/ c \in {" ", "-", "_"}

RECURSIVE LStrip(_)
LStrip(s) == IF s # <<>> /\ Head(s) = " " THEN LStrip(Tail(s)) ELSE s

RECURSIVE RStrip(_)
RStrip(s) ==
  IF s # <<>> /\ s[Len(s)] = " " THEN RStrip(SubSeq(s, 1, Len(s) - 1)) ELSE s

\* str.strip()
Strip(s) == RStrip(LStrip(s))

\* safe_title of export_event
SafeTitle(title) == Strip(SelectSeq(title, IsKept))

\* researcher.name.replace('/', '-')
ReplaceSlash(name) ==
  [i \in DOMAIN name |-> IF name[i] = "/" THEN "-" ELSE name[i]]

\* The directories os.path.isdir finds.
Directories == {"/vault"}

\* os.path.join(vault_path, "PPML-FHE-Dashboard")
BaseDir(vault_path) == <<vault_path, "PPML-FHE-Dashboard">>

\* [t.strip() for t in tags.split(",")] on the tag lists of the forms.
CommaSplit(s) == IF s = "fhe,mpc" THEN <<"fhe", "mpc">> ELSE <<s>>

\* The path export_event writes the note of e to.
EventPath(base, e) ==
  [dir |-> base \o <<"Events", TitleCase(e.category) \o "s">>,
   name |-> SafeTitle(e.title) \o <<".md">>]

\* content of export_event: "\n".join(frontmatter) + "\n".join(body) puts
\* the heading on the last, empty line of the front matter.
EventContent(e) ==
  <<<<"---">>, <<"title: \"">> \o e.title \o <<"\"">>,
    <<"category: ", e.category>>>>
  \o (IF Truthy(e.website) THEN <<<<"website: \"", e.website, "\"">>>> ELSE <<>>)
  \o (IF e.submission_deadline # NULL
      THEN <<<<"submission_deadline: ", IsoFormat(e.submission_deadline)>>>>
      ELSE <<>>)
  \o (IF Truthy(e.relevance_tags)
      THEN <<<<"tags:">>>>
           \o [i \in DOMAIN CommaSplit(e.relevance_tags) |->
                 <<"  - ", CommaSplit(e.relevance_tags)[i]>>]
      ELSE <<>>)
  \o <<<<"---">>, <<"# ">> \o e.title, <<"">>>>
  \o (IF Truthy(e.website)
      THEN <<<<"**Website:** [", e.website, "](", e.website, ")">>>> ELSE <<>>)
  \o <<<<"">>>>
  \o (IF e.submission_deadline # NULL
      THEN <<<<"## Key Dates">>,
             <<"- **Submission Deadline:** ", IsoFormat(e.submission_deadline)>>,
             <<"">>>>
      ELSE <<>>)

\* The path export_researcher writes the note of r to.
ResearcherPath(base, r) ==
  [dir |-> base \o <<"Researchers">>,
   name |-> ReplaceSlash(r.name) \o <<".md">>]

ResearcherContent(r) ==
  <<<<"---">>, <<"name: \"">> \o r.name \o <<"\"">>,
    <<"affiliation: \"", r.affiliation, "\"">>, <<"---">>, <<"">>,
    <<"# ">> \o r.name, <<"">>>>
  \o (IF Truthy(r.affiliation)
      THEN <<<<"**Affiliation:** ", r.affiliation>>>> ELSE <<>>)

\* The path export_daily_log writes the note of log to.
DailyLogPath(base, log) ==
  [dir |-> base \o <<"Daily Notes">>,
   name |-> <<IsoFormat(log.log_date), ".md">>]

DailyLogContent(log) ==
  <<<<"---">>, <<"date: ", IsoFormat(log.log_date)>>,
    <<"hours_worked: ", ToString(log.hours_worked)>>>>
  \o (IF Truthy(log.mood) THEN <<<<"mood: ", log.mood>>>> ELSE <<>>)
  \o <<<<"---">>, <<"">>, <<"# ", IsoFormat(log.log_date)>>, <<"">>>>
  \o (IF log.hours_worked # 0
      THEN <<<<"**Hours worked:** ", ToString(log.hours_worked)>>>> ELSE <<>>)
  \o (IF Truthy(log.mood) THEN <<<<"**Mood:** ", log.mood>>>> ELSE <<>>)
  \o <<<<"">>, <<log.content>>>>

\* The category names of the forms in the order sorted() gives them.
SortedCategories == <<"call_for_chapters", "conference", "journal">>

IndexPath(base) == [dir |-> base, name |-> <<"Index", ".md">>]

\* The index file: its links, and a line per category of the events.
IndexContent(evs) ==
  <<<<"# PPML/FHE Research Dashboard">>, <<"">>, <<"## Quick Links">>,
    <<"- [[Events]]">>, <<"- [[Researchers]]">>, <<"- [[Daily Notes]]">>,
    <<"">>, <<"## Event Categories">>>>
  \o [i \in 1..Len(SelectSeq(SortedCategories,
                             LAMBDA c : \E j \in DOMAIN evs : evs[j].category = c)) |->
        <<"- [[Events/",
          TitleCase(SelectSeq(SortedCategories,
                      LAMBDA c : \E j \in DOMAIN evs : evs[j].category = c)[i]),
          "s/]]">>]

\* _write_file with the file opened for appending.
WriteFileAppend(v, path, content) ==
  [p \in DOMAIN v \cup {path} |->
     IF p # path THEN v[p]
     ELSE IF path \in DOMAIN v THEN v[path] \o content ELSE content]

\* _write_file: open(filepath, 'w') makes the file or replaces its content.
WriteFile(v, path, content) ==
  [p \in DOMAIN v \cup {path} |-> IF p = path THEN content ELSE v[p]]

\* The files written one after the other.
RECURSIVE WriteFiles(_, _)
WriteFiles(v, files) ==
  IF files = <<>> THEN v
  ELSE WriteFiles(WriteFile(v, Head(files).path, Head(files).content),
                  Tail(files))

\* The file writes of export_all, in its order: the events, the
\* researchers, the daily logs, the index.
ExportWrites(base, evs, rs, logs) ==
  [i \in DOMAIN evs |->
     [path |-> EventPath(base, evs[i]), content |-> EventContent(evs[i])]]
  \o [i \in DOMAIN rs |->
        [path |-> ResearcherPath(base, rs[i]),
         content |-> ResearcherContent(rs[i])]]
  \o [i \in DOMAIN logs |->
        [path |-> DailyLogPath(base, logs[i]),
         content |-> DailyLogContent(logs[i])]]
  \o <<[path |-> IndexPath(base), content |-> IndexContent(evs)]>>

\* ObsidianExport(vault_path).export_all(events, researchers, daily_logs)
ExportAll(v, vault_path, evs, rs, logs) ==
  WriteFiles(v, ExportWrites(BaseDir(vault_path), evs, rs, logs))

\* POST /settings with action=export_obsidian, the path being a directory
\* (otherwise the handler writes nothing).
export_obsidian ==
  /\ Truthy(AppSettingGet(app_settings, "obsidian_vault_path", ""))
  /\ AppSettingGet(app_settings, "obsidian_vault_path", "") \in Directories
  /\ vault' = ExportAll(vault, AppSettingGet(app_settings, "obsidian_vault_path", ""),
                        AllEvents(events), AllEvents(researchers),
                        AllEvents(daily_logs))
  /\ tick' = Idle
  /\ UNCHANGED <<more, env, reminder_days, today, events, todos, researchers,
                 daily_logs, milestones, app_settings, requests>>

---------------------------------------------------------------------------
(* The scheduler.  The time of day is counted in half hours, the step of   *)
(* the two cron triggers; an instant is the number of half hours since the *)
(* midnight that began day 0.  A text of the environment is the sequence   *)
(* of its characters, and a variable that is not set is no key of env.     *)

\* Half hours of a day.
SlotsPerDay == 48

\* The instant the clock shows.
Now == today * SlotsPerDay + clock

\* Hours a cron trigger accepts; CronTrigger raises ValueError on any other.
CronHours == 0..23

\* os.getenv(key, default)
GetEnv(e, key, default) == IF key \in DOMAIN e THEN e[key] ELSE default

DigitChars == <<"0", "1", "2", "3", "4", "5", "6", "7", "8", "9">>

\* The number a sequence of digits writes.
RECURSIVE DigitsValue(_)
DigitsValue(ds) ==
  IF ds = <<>> THEN 0
  ELSE 10 * DigitsValue(SubSeq(ds, 1, Len(ds) - 1))
         + (CHOOSE i \in 0..9 : DigitChars[i + 1] = ds[Len(ds)])

\* The text int() reads its digits from: blanks stripped, a sign taken off.
Unsigned(s) ==
  IF Strip(s) # <<>> /\ Head(Strip(s)) \in {"+", "-"}
  THEN Tail(Strip(s)) ELSE Strip(s)

\* Whether int(s) returns; it raises ValueError on a text that is empty or
\* holds a character that is no digit.
IntParses(s) ==
  /\ Unsigned(s) # <<>>
  /\ \A i \in DOMAIN Unsigned(s) : Unsigned(s)[i] \in Range(DigitChars)

\* int(s) of a text it accepts.
IntOf(s) ==
  IF Head(Strip(s)) = "-"
  THEN 0 - DigitsValue(Unsigned(s)) ELSE DigitsValue(Unsigned(s))

\* s.split(sep)
RECURSIVE SplitOn(_, _)
SplitOn(s, sep) ==
  IF \E i \in DOMAIN s : s[i] = sep
  THEN LET i == CHOOSE k \in DOMAIN s :
                  s[k] = sep /\ \A l \in 1..(k - 1) : s[l] # sep
       IN  <<SubSeq(s, 1, i - 1)>> \o SplitOn(SubSeq(s, i + 1, Len(s)), sep)
  ELSE <<s>>

\* os.getenv("DAILY_DIGEST_HOUR", "9")
DigestHourText(e) == GetEnv(e, "DAILY_DIGEST_HOUR", <<"9">>)

\* os.getenv("REMINDER_DAYS_BEFORE", "7,3,1").split(",")
ReminderDayTexts(e) ==
  SplitOn(GetEnv(e, "REMINDER_DAYS_BEFORE", <<"7", ",", "3", ",", "1">>), ",")

\* Whether init_scheduler returns: both int() parses succeed and the cron
\* triggers accept the hour.
SchedulerConfigParses(e) ==
  /\ IntParses(DigestHourText(e))
  /\ \A i \in DOMAIN ReminderDayTexts(e) : IntParses(ReminderDayTexts(e)[i])
  /\ IntOf(DigestHourText(e)) \in CronHours

\* reminder_days of init_scheduler
ParsedReminderDays(e) ==
  [i \in DOMAIN ReminderDayTexts(e) |-> IntOf(ReminderDayTexts(e)[i])]

\* The jobs init_scheduler registers.
JobNames == {"digest", "deadline"}

\* The minute of the cron trigger of both jobs set to 0.
TriggerMinuteZero(j) == 0

\* The minute of the cron trigger of a job.
TriggerMinute(j) == IF j = "digest" THEN 0 ELSE 30

\* The first instant after the instant t at which a trigger of this hour and
\* minute fires.
NextFireTime(hour, minute, t) ==
  LET at == (t \div SlotsPerDay) * SlotsPerDay + 2 * hour + minute \div 30
  IN  IF at > t THEN at ELSE at + SlotsPerDay

\* The scheduler before init_scheduler is called.
NoScheduler == [state |-> "new", since |-> NULL, jobs |-> <<>>]

\* The scheduler after scheduler.start(): each job with its trigger, its
\* next run time, the instants it has fired at (and whether the run was
\* started then), and the next run time that followed its last failed run.
StartedScheduler(hour, t) ==
  [state |-> "started", since |-> t,
   jobs |-> [j \in JobNames |->
               [hour |-> hour, minute |-> TriggerMinute(j),
                next_run |-> NextFireTime(hour, TriggerMinute(j), t),
                runs |-> <<>>, due_after_failure |-> NULL]]]

\* create_app calls init_scheduler: the configuration is parsed, the jobs
\* are registered and the scheduler is started; an exception of a parse or
\* of a trigger leaves create_app, and the process ends.
init_scheduler ==
  /\ sched.state = "new"
  /\ IF SchedulerConfigParses(env)
     THEN /\ sched' = StartedScheduler(IntOf(DigestHourText(env)), Now)
          /\ reminder_days' = ParsedReminderDays(env)
     ELSE /\ sched' = [NoScheduler EXCEPT !.state = "failed"]
          /\ UNCHANGED reminder_days
  /\ tick' = Idle
  /\ UNCHANGED <<env, today, events, todos, researchers, daily_logs,
                 milestones, app_settings, vault, requests, clock, running,
                 users, sessions, response>>

\* The last instant of the calendar of the model.
LastInstant == (MaxDay + 1) * SlotsPerDay - 1

\* Half an hour passes.  The scheduler thread runs a job at its next run
\* time, so no next run time is passed over.
advance ==
  /\ sched.state # "new"
  /\ Now < LastInstant
  /\ \A j \in DOMAIN sched.jobs : sched.jobs[j].next_run > Now
  /\ IF clock + 1 < SlotsPerDay
     THEN clock' = clock + 1 /\ today' = today
     ELSE clock' = 0 /\ today' = today + 1
  /\ tick' = Idle
  /\ UNCHANGED <<env, reminder_days, events, todos, researchers, daily_logs,
                 milestones, app_settings, vault, requests, sched, running,
                 users, sessions, response>>

\* A run of a job has failed: it raised, or it logged an error of a send.
RunFailed(log) == log.raised \/ log.errors # <<>>

\* The jobs with a failed run unregistered.
JobsAfterRunDropFailed(jobs, j, log) ==
  IF RunFailed(log) THEN [k \in DOMAIN jobs \ {j} |-> jobs[k]] ELSE jobs

\* The jobs after a run of job j has ended with this log: the jobs are
\* registered once, by init_scheduler, and no line unregisters one.
JobsAfterRun(jobs, j, log) ==
  IF RunFailed(log)
  THEN [jobs EXCEPT ![j].due_after_failure = jobs[j].next_run] ELSE jobs

\* The jobs after job j has fired now: its next run time is the next fire
\* time of its trigger.
JobsAfterFire(jobs, j, ran) ==
  [jobs EXCEPT ![j].next_run = NextFireTime(jobs[j].hour, jobs[j].minute, Now),
               ![j].runs = Append(@, [at |-> Now, ran |-> ran])]

\* The job j is registered and its next run time has come.
IsDue(j) ==
  /\ sched.state = "started"
  /\ j \in DOMAIN sched.jobs
  /\ sched.jobs[j].next_run <= Now

\* The ticks in progress without the one of job j.
Ended(j) == [k \in DOMAIN running \ {j} |-> running[k]]

\* A run of job j ends with this log, the jobs being as given before it.
TickEnds(j, log, jobs) ==
  /\ tick' = log
  /\ running' = Ended(j)
  /\ sched' = [sched EXCEPT !.jobs = JobsAfterRun(jobs, j, log)]

\* A run of job j goes on from the state inst it has reached.
TickGoesOn(j, inst, jobs) ==
  /\ tick' = Idle
  /\ running' = [k \in DOMAIN running \cup {j} |->
                   IF k = j THEN inst ELSE running[k]]
  /\ sched' = [sched EXCEPT !.jobs = jobs]

\* The job j fires while its last run is in progress: the scheduler starts no
\* second instance of a job and skips the run.
RunSkipped(j) ==
  /\ tick' = Idle
  /\ sched' = [sched EXCEPT !.jobs = JobsAfterFire(@, j, FALSE)]
  /\ UNCHANGED running

\* The daily_digest job fires: _send_daily_digest builds the notifiers and
\* runs its two queries.
daily_digest ==
  /\ IsDue("digest")
  /\ IF "digest" \in DOMAIN running THEN RunSkipped("digest")
     ELSE LET g == GetNotifiers(env)
              start == [Idle EXCEPT !.job = "digest"] @@ [day |-> today]
              jobs == JobsAfterFire(sched.jobs, "digest", TRUE)
          IN  IF g.raised
              THEN TickEnds("digest", [start EXCEPT !.raised = TRUE], jobs)
              ELSE IF g.notifiers = <<>> THEN TickEnds("digest", start, jobs)
              ELSE \E upcoming \in UpcomingResults(events, reminder_days, today),
                      pending \in PendingResults(todos) :
                     TickGoesOn("digest",
                                [log |-> [start EXCEPT !.notifiers = g.notifiers],
                                 upcoming |-> upcoming, pending |-> pending],
                                jobs)
  /\ UNCHANGED <<env, reminder_days, today, events, todos, researchers,
                 daily_logs, milestones, app_settings, vault, requests, clock,
                 users, sessions, response>>

\* The loop of _send_daily_digest over the notifiers: each builds its
\* message on the day it is called and sends it, however long that takes.
send_digests ==
  /\ "digest" \in DOMAIN running
  /\ \E fails \in SUBSET Range(running["digest"].log.notifiers) :
       TickEnds("digest",
                RunDigest(running["digest"].log.notifiers, 1,
                          running["digest"].upcoming, running["digest"].pending,
                          today, fails, running["digest"].log),
                sched.jobs)
  /\ UNCHANGED <<env, reminder_days, today, events, todos, researchers,
                 daily_logs, milestones, app_settings, vault, requests, clock,
                 users, sessions, response>>

\* The logs the i-th pass of the offset loop of _check_deadlines may leave:
\* the events due reminder_days[i] days after the day the run has read are
\* queried, and each notifier builds its message on the day it is called.
ReminderPassLogs(log, i) ==
  {RunReminders(ReminderPlan(events, <<reminder_days[i]>>, log.notifiers, log.day),
                today, fails, log) :
     fails \in SUBSET ReminderSends(env, events, <<reminder_days[i]>>, log.day)}

\* The run of _check_deadlines after a pass of its offset loop.
AfterReminderPass(log, i, jobs) ==
  IF i = Len(reminder_days) THEN TickEnds("deadline", log, jobs)
  ELSE TickGoesOn("deadline", [log |-> log, next |-> i + 1], jobs)

\* The deadline_check job fires: _check_deadlines builds the notifiers,
\* reads the day and makes the first pass of its offset loop.
deadline_check ==
  /\ IsDue("deadline")
  /\ IF "deadline" \in DOMAIN running THEN RunSkipped("deadline")
     ELSE LET g == GetNotifiers(env)
              start == [Idle EXCEPT !.job = "deadline"] @@ [day |-> today]
              jobs == JobsAfterFire(sched.jobs, "deadline", TRUE)
          IN  IF g.raised
              THEN TickEnds("deadline", [start EXCEPT !.raised = TRUE], jobs)
              ELSE IF g.notifiers = <<>> THEN TickEnds("deadline", start, jobs)
              ELSE \E log \in ReminderPassLogs(
                                [start EXCEPT !.notifiers = g.notifiers], 1) :
                     AfterReminderPass(log, 1, jobs)
  /\ UNCHANGED <<env, reminder_days, today, events, todos, researchers,
                 daily_logs, milestones, app_settings, vault, requests, clock,
                 users, sessions, response>>

\* A later pass of the offset loop, the sends of the passes before it having
\* taken their time.
next_reminders ==
  /\ "deadline" \in DOMAIN running
  /\ \E log \in ReminderPassLogs(running["deadline"].log,
                                 running["deadline"].next) :
       AfterReminderPass(log, running["deadline"].next, sched.jobs)
  /\ UNCHANGED <<env, reminder_days, today, events, todos, researchers,
                 daily_logs, milestones, app_settings, vault, requests, clock,
                 users, sessions, response>>

\* The process is started again: the scheduler of the new process has no
\* job yet, a run in progress ends with the old process, and the database
\* file and the cookies of the clients stay.
restart ==
  /\ sched.state # "new"
  /\ sched' = NoScheduler
  /\ running' = <<>>
  /\ tick' = Idle
  /\ UNCHANGED <<env, reminder_days, today, events, todos, researchers,
                 daily_logs, milestones, app_settings, vault, requests, clock,
                 users, sessions, response>>

---------------------------------------------------------------------------
(* Authentication.  A password is the sequence of its characters.  The     *)
(* session of a client is the cookie the client holds, a function of its   *)
(* keys.  A request to a protected route is two steps: the decorator       *)
(* login_required answers it or admits it, and the handler of the route    *)
(* then serves the request admitted.                                       *)

\* Clients that hold a session cookie.
MaxClients == 2

Clients == 1..MaxClients

\* Shortest password change_password accepts.
MinPasswordLength == 4

\* The salts bcrypt.gensalt() may draw.
Salts == {"salt1", "salt2"}

\* bcrypt.hashpw(password, salt)
HashPw(password, salt) == [salt |-> salt, digest |-> <<salt, password>>]

\* bcrypt.checkpw(password, hashed)
CheckPw(password, hashed) == HashPw(password, hashed.salt) = hashed

\* os.getenv("DASHBOARD_PASSWORD", "changeme")
DefaultPassword == <<"c", "h", "a", "n", "g", "e", "m", "e">>

\* The users table after create_app has added the default user.
DefaultUsers(salt) ==
  1 :> [id |-> 1, username |-> "admin",
        password_hash |-> HashPw(DefaultPassword, salt)]

\* The response before any request is served.
NoResponse == [client |-> 0, route |-> "none", status |-> "none"]

\* The decorator with its test left out: every request is admitted.
LoginRequiredOpen(session) == TRUE

\* "user_id" in session
LoginRequired(session) == "user_id" \in DOMAIN session

\* POST /login with this password.
login(c, password) ==
  /\ sessions' =
       IF "user_id" \in DOMAIN sessions[c] THEN sessions
       ELSE IF DOMAIN users # {}
               /\ CheckPw(password, users[Ascending(DOMAIN users)[1]].password_hash)
            THEN [sessions EXCEPT ![c] =
                    [_permanent |-> TRUE,
                     user_id |-> users[Ascending(DOMAIN users)[1]].id]]
            ELSE sessions
  /\ response' =
       [client |-> c, route |-> "login",
        status |-> IF "user_id" \in DOMAIN sessions'[c]
                   THEN "redirect_dashboard" ELSE "login_page"]
  /\ tick' = Idle
  /\ UNCHANGED <<env, reminder_days, today, events, todos, researchers,
                 daily_logs, milestones, app_settings, vault, requests, clock,
                 sched, running, users>>

\* GET /logout: session.clear()
logout(c) ==
  /\ sessions' = [sessions EXCEPT ![c] = <<>>]
  /\ response' = [client |-> c, route |-> "logout", status |-> "redirect_login"]
  /\ tick' = Idle
  /\ UNCHANGED <<env, reminder_days, today, events, todos, researchers,
                 daily_logs, milestones, app_settings, vault, requests, clock,
                 sched, running, users>>

\* A request of client c to a protected route reaches login_required: it is
\* redirected to the login page, or admitted to the handler of the route.
login_required(c, route) ==
  /\ response' =
       [client |-> c, route |-> route,
        status |-> IF LoginRequired(sessions[c])
                   THEN "admitted" ELSE "redirect_login"]
  /\ tick' = Idle
  /\ UNCHANGED <<env, reminder_days, today, events, todos, researchers,
                 daily_logs, milestones, app_settings, vault, requests, clock,
                 sched, running, users, sessions>>

\* The request being served has been admitted to the handler of this route.
Admitted(route) == response.status = "admitted" /\ response.route = route

\* POST /settings with action=change_password, by the client admitted.
change_password(new_password) ==
  /\ Admitted("settings")
  /\ IF Len(new_password) >= MinPasswordLength
     THEN \E salt \in Salts :
            users' = [users EXCEPT
                        ![sessions[response.client].user_id].password_hash =
                          HashPw(new_password, salt)]
     ELSE UNCHANGED users
  /\ tick' = Idle
  /\ UNCHANGED <<env, reminder_days, today, events, todos, researchers,
                 daily_logs, milestones, app_settings, vault, requests, clock,
                 sched, running, sessions, response>>

---------------------------------------------------------------------------
(* Specifications.                                                         *)

\* The reminder-day lists init_scheduler may parse: one or two offsets, in
\* any order, repeated or not.
ReminderDayLists ==
  {<<a>> : a \in 1..MaxOffset}
    \cup {<<a, b>> : a \in 1..MaxOffset, b \in 1..MaxOffset}

\* The state after create_app with the given configurations.
InitWith(envs, lists) ==
  /\ env \in envs
  /\ reminder_days \in lists
  /\ today = 0
  /\ events = <<>>
  /\ todos = <<>>
  /\ tick = Idle
  /\ researchers = <<>>
  /\ daily_logs = <<>>
  /\ milestones = <<>>
  /\ app_settings = <<>>
  /\ vault = <<>>
  /\ requests = <<>>
  /\ clock = 0
  /\ sched = StartedScheduler(9, 0)
  /\ running = <<>>
  /\ users = DefaultUsers("salt1")
  /\ sessions = [c \in Clients |-> <<>>]
  /\ response = NoResponse

\* Event forms that differ in the deadline only.
DeadlineForms ==
  [title : {"CRYPTO"}, category : {"conference"}, website : {""},
   relevance_tags : {""}, submission_deadline : DateInputs(0..MaxDate)]

EventRequests(forms) ==
  \/ \E f \in forms : event_new(f)
  \/ \E id \in EventIds, f \in forms : event_edit(id, f)
  \/ \E id \in EventIds : event_delete(id)

InitDeadline == InitWith(PlainEnvs, ReminderDayLists)

NextDeadline ==
  \/ EventRequests(DeadlineForms)
  \/ NextDay
  \/ check_deadlines

\* The deadline-check job over events that differ in their deadlines.
SpecDeadline == InitDeadline /\ [][NextDeadline]_vars

\* One event form and one todo form.
ConfigEventForms ==
  [title : {"CRYPTO"}, category : {"conference"}, website : {""},
   relevance_tags : {""}, submission_deadline : {IsoFormat(1)}]

ConfigTodoForms ==
  [title : {"review"}, priority : {"medium"}, due_date : {""}]

InitConfig == InitWith(Envs, {<<1>>})

NextConfig ==
  \/ \E f \in ConfigEventForms : event_new(f)
  \/ \E id \in EventIds : event_delete(id)
  \/ \E f \in ConfigTodoForms : todo_new(f)
  \/ \E id \in TodoIds : todo_delete(id)
  \/ check_deadlines
  \/ send_daily_digest

\* The two jobs under every configuration of the environment.
SpecConfig == InitConfig /\ [][NextConfig]_vars

\* Deadlines at the start of the digest window and at its far edge.
DigestFormDates ==
  (0..MaxDay)
    \cup {MaxOffset + DigestExtraDays, MaxOffset + DigestExtraDays + 1}

DigestForms ==
  [title : {"CRYPTO"}, category : {"conference"}, website : {""},
   relevance_tags : {""}, submission_deadline : DateInputs(DigestFormDates)]

\* Environments with the webhook set, with and without the e-mail backend.
WebhookEnvs == {e \in PlainEnvs : Truthy(e.DISCORD_WEBHOOK_URL)}

InitDigest == InitWith(WebhookEnvs, ReminderDayLists)

NextDigest ==
  \/ EventRequests(DigestForms)
  \/ NextDay
  \/ send_daily_digest

\* The digest job over events inside and outside its window.
SpecDigest == InitDigest /\ [][NextDigest]_vars

TodoForms ==
  [title : {"review"}, priority : {"high", "medium", "low"},
   due_date : {"", IsoFormat(0), IsoFormat(1)}]

\* Update forms that carry the status only.
StatusForms ==
  [title : {Unset}, priority : {Unset}, due_date : {Unset},
   status : {"pending", "in_progress", "completed"}]

InitTodos == InitWith(WebhookEnvs, {<<1>>})

NextTodos ==
  \/ \E f \in ConfigEventForms : event_new(f)
  \/ \E id \in EventIds : event_delete(id)
  \/ \E f \in TodoForms : todo_new(f)
  \/ \E id \in TodoIds, f \in StatusForms : todo_update(id, f)
  \/ \E id \in TodoIds : todo_delete(id)
  \/ send_daily_digest

\* The digest job over todos of every status, priority and due date.
SpecTodos == InitTodos /\ [][NextTodos]_vars

\* Event forms with and without the optional fields, due on an urgent day
\* and on a later one.
RenderForms ==
  [title : {"CRYPTO"}, category : {"conference", "call_for_chapters"},
   website : {"", "https://crypto.example"}, relevance_tags : {"", "fhe,mpc"},
   submission_deadline : {"", IsoFormat(UrgentDays), IsoFormat(UrgentDays + 1)}]

InitRender == InitWith(PlainEnvs, {<<UrgentDays + 1, UrgentDays>>})

NextRender ==
  \/ EventRequests(RenderForms)
  \/ check_deadlines

\* The deadline-check job over events with and without optional fields.
SpecRender == InitRender /\ [][NextRender]_vars

---------------------------------------------------------------------------
(* Claims about the deadline-check job.                                    *)

\* Calls of send_deadline_reminder the job just run made on the notifier of
\* this kind for the event with this id.
ReminderCalls(kind, id) ==
  Cardinality({i \in DOMAIN tick.calls :
                 tick.calls[i].kind = kind /\ tick.calls[i].event.id = id})

\* Places of the reminder-days list whose offset leads from today to the
\* deadline of e.
MatchingOffsets(e) ==
  {i \in DOMAIN reminder_days :
     e.submission_deadline # NULL
     /\ e.submission_deadline = today + reminder_days[i]}

\* A deadline-check job has just run with at least one active backend.
DeadlineTickRan == tick.job = "deadline" /\ tick.notifiers # <<>>

C2_AttemptsDespiteFailures ==
  /\ tick.job = "digest" =>
       /\ Len(tick.calls) = Len(tick.notifiers)
       /\ \A i \in DOMAIN tick.notifiers : tick.calls[i].kind = tick.notifiers[i]
  /\ tick.job = "deadline" =>
       \A id \in DOMAIN events : \A k \in Range(tick.notifiers) :
         MatchingOffsets(events[id]) # {} => ReminderCalls(k, id) >= 1

\* C2 witness: a deadline-check tick whose first call raised and was logged
\* and whose later call, on the other backend, was made and delivered.
C2_Witness ==
  /\ tick.job = "deadline"
  /\ Len(tick.calls) >= 2
  /\ Len(tick.errors) = 1
  /\ ~tick.posts[1].delivered
  /\ tick.posts[2].delivered
  /\ tick.calls[2].kind # tick.calls[1].kind

\* No backend is active under the environment: no webhook URL and not all
\* four SMTP credentials.
NoBackendActive ==
  ~Truthy(env.DISCORD_WEBHOOK_URL) /\ ~EmailConfigured(env)

---------------------------------------------------------------------------
(* Claims about the digest job.                                            *)

\* A digest job has just run with at least one active backend.
DigestTickRan == tick.job = "digest" /\ tick.notifiers # <<>>

\* The ids of the rows a list holds.
IdsOf(list) == {list[i].id : i \in DOMAIN list}

\* The stored events the digest is to show: deadline not null and in the
\* closed interval from today to today + max(reminder_days) + 7.
InDigestWindow(e) ==
  /\ e.submission_deadline # NULL
  /\ e.submission_deadline >= today
  /\ \E m \in Range(reminder_days) :
       /\ \A d \in Range(reminder_days) : d <= m
       /\ e.submission_deadline <= today + m + DigestExtraDays

\* C5: the event list a digest tick passes to each backend holds exactly the
\* stored events with a non-null deadline in [today, today + max + 7], each
\* once and as stored, in ascending order of deadline.
C5_UpcomingInWindowSorted ==
  DigestTickRan =>
    \A c \in Range(tick.calls) :
      /\ IdsOf(c.upcoming) = {id \in DOMAIN events : InDigestWindow(events[id])}
      /\ Len(c.upcoming) = Cardinality(IdsOf(c.upcoming))
      /\ \A i \in DOMAIN c.upcoming : c.upcoming[i] = events[c.upcoming[i].id]
      /\ \A i, j \in DOMAIN c.upcoming :
           i < j => c.upcoming[i].submission_deadline
                      <= c.upcoming[j].submission_deadline

\* C5 witness: a digest whose list holds two events, the later-stored one
\* first because its deadline is earlier, the other due on the last day of
\* the window, under a reminder list whose largest offset is not its first.
C5_Witness ==
  /\ DigestTickRan
  /\ Len(reminder_days) = 2
  /\ reminder_days[1] < reminder_days[2]
  /\ Len(tick.calls[1].upcoming) = 2
  /\ tick.calls[1].upcoming[1].id > tick.calls[1].upcoming[2].id
  /\ tick.calls[1].upcoming[2].submission_deadline
       = today + reminder_days[2] + DigestExtraDays

\* The order C6 states: 3 for high, 2 for medium, 1 for low.
PriorityLevel(p) ==
  CASE p = "high" -> 3
    [] p = "medium" -> 2
    [] p = "low" -> 1
    [] OTHER -> 0

\* Todo a is to come before todo b in the order C6 states: due date
\* ascending with null last, then priority descending.
StatedTodoBefore(a, b) ==
  \/ a.due_date # NULL /\ b.due_date = NULL
  \/ a.due_date # NULL /\ b.due_date # NULL /\ a.due_date < b.due_date
  \/ a.due_date = b.due_date
       /\ PriorityLevel(a.priority) > PriorityLevel(b.priority)

\* C6: the todo list a digest tick passes to each backend holds exactly the
\* todos with status pending or in_progress, by due date ascending with null
\* due dates last and, among equal due dates, high before medium before low.
C6_PendingTodosOrdered ==
  DigestTickRan =>
    \A c \in Range(tick.calls) :
      /\ IdsOf(c.pending) = {id \in DOMAIN todos : IsPending(todos[id])}
      /\ Len(c.pending) = Cardinality(IdsOf(c.pending))
      /\ \A i, j \in DOMAIN c.pending :
           i < j => ~StatedTodoBefore(c.pending[j], c.pending[i])

\* C7: in every tick the chat-webhook notifier is in the list of active
\* notifiers exactly if the webhook URL is non-empty, and the e-mail
\* notifier exactly if each of server, user name, password and recipient is
\* non-empty, neither depending on the other's settings.
C7_ActiveIffCredentials ==
  tick.job # "none" =>
    /\ ("discord" \in Range(tick.notifiers)) <=> Truthy(env.DISCORD_WEBHOOK_URL)
    /\ ("email" \in Range(tick.notifiers)) <=> EmailConfigured(env)

\* The messages the job just run tried to send through this backend.
PostsOf(kind) == SelectSeq(tick.posts, LAMBDA m : m.backend = kind)

\* C8: in every digest tick with an active backend, each active backend has
\* one send_daily_digest call and sends one digest message, whatever the two
\* lists hold.
C8_OneDigestMessagePerBackend ==
  DigestTickRan =>
    \A k \in Range(tick.notifiers) :
      /\ Cardinality({i \in DOMAIN tick.calls : tick.calls[i].kind = k}) = 1
      /\ Len(PostsOf(k)) = 1

\* The digest message m has a section under this heading with a line in it.
HasSection(m, heading) ==
  IF m.backend = "discord"
  THEN \E i \in DOMAIN m.embeds :
         m.embeds[i].title[1] = heading /\ m.embeds[i].description # <<>>
  ELSE IF heading = "Upcoming Deadlines"
       THEN m.html.deadlines # <<>>
       ELSE m.html.tasks # <<>>

\* The digest message m gives this many lines to events.
DeadlineRows(m) ==
  IF m.backend = "discord"
  THEN IF \E i \in DOMAIN m.embeds : m.embeds[i].title[1] = "Upcoming Deadlines"
       THEN Len(m.embeds[1].description) ELSE 0
  ELSE IF m.html.deadlines = <<<<"<p>No upcoming deadlines.</p>">>>>
       THEN 0 ELSE Len(m.html.deadlines) - 2

\* C9: every digest message has both of its sections, the deadlines and the
\* tasks, an empty half being a line that says so; a digest of no todos and
\* two events has two deadline rows and its no-tasks section.
C9_EmptyHalfSaysNone ==
  DigestTickRan =>
    \A i \in DOMAIN tick.calls : \A m \in Range(PostsOf(tick.calls[i].kind)) :
      /\ HasSection(m, "Upcoming Deadlines")
      /\ HasSection(m, IF m.backend = "discord"
                       THEN "Pending Todos (" ELSE "Pending Tasks (")
      /\ DeadlineRows(m) = Len(tick.calls[i].upcoming)

---------------------------------------------------------------------------
(* Claims about the reminder messages.                                     *)

\* The texts and values a reminder message shows.
Shown(m) ==
  IF m.backend = "discord"
  THEN Range(m.embeds[1].title)
         \cup {m.embeds[1].fields[i].value : i \in DOMAIN m.embeds[1].fields}
         \cup (IF "url" \in DOMAIN m.embeds[1] THEN {m.embeds[1].url} ELSE {})
  ELSE Range(m.subject) \cup Range(m.html)

\* The reminder message m carries the urgent indicator.
IsUrgent(m) ==
  IF m.backend = "discord"
  THEN m.embeds[1].color = DiscordUrgent
  ELSE "#dc2626" \in Range(m.html)

\* The reminder message m carries the warning indicator.
IsWarning(m) ==
  IF m.backend = "discord"
  THEN m.embeds[1].color = DiscordWarning
  ELSE "#f59e0b" \in Range(m.html)

\* C10: every send_deadline_reminder call of a tick builds one message; it
\* shows the event's title, category, deadline and days remaining, the
\* website if set and the relevance tags if set, and is urgent when the
\* days remaining are at most 3 and warning otherwise.
C10_ReminderContent ==
  tick.job = "deadline" =>
    /\ Len(tick.posts) = Len(tick.calls)
    /\ \A i \in DOMAIN tick.posts :
         LET m == tick.posts[i]
             e == tick.calls[i].event
             left == e.submission_deadline - today
         IN  /\ m.backend = tick.calls[i].kind
             /\ e.title \in Shown(m)
             /\ TitleCase(e.category) \in Shown(m)
             /\ IsoFormat(e.submission_deadline) \in Shown(m)
             /\ ToString(left) \in Shown(m)
             /\ Truthy(e.website) => e.website \in Shown(m)
             /\ Truthy(e.relevance_tags) => e.relevance_tags \in Shown(m)
             /\ IsUrgent(m) <=> left <= UrgentDays
             /\ IsWarning(m) <=> left > UrgentDays

---------------------------------------------------------------------------
(* Claims about the todo lines of the digest.                              *)

\* Todo forms of every priority, a value outside the three levels among
\* them, with and without a due date.
LineForms ==
  [title : {"review"}, priority : {"high", "medium", "low", "urgent"},
   due_date : {"", IsoFormat(1)}]

InitLines == InitWith(WebhookEnvs, {<<1>>})

NextLines ==
  \/ \E f \in LineForms : todo_new(f)
  \/ \E id \in TodoIds : todo_delete(id)
  \/ send_daily_digest

\* The digest job over todos of every priority.
SpecLines == InitLines /\ [][NextLines]_vars

\* The todo lines of the digest message m, list markup taken off.
TodoLines(m) ==
  IF m.backend = "discord"
  THEN IF \E i \in DOMAIN m.embeds : m.embeds[i].title[1] = "Pending Todos ("
       THEN m.embeds[Len(m.embeds)].description ELSE <<>>
  ELSE IF m.html.tasks = <<<<"<p>No pending tasks.</p>">>>> THEN <<>>
       ELSE [i \in 1..(Len(m.html.tasks) - 2) |->
               SubSeq(m.html.tasks[i + 1], 2, Len(m.html.tasks[i + 1]) - 1)]

\* The marker class of a priority: the three levels, and one class for every
\* other value.
PriorityClass(p) == IF p \in {"high", "medium", "low"} THEN p ELSE "other"

\* The line ends with a due-date suffix giving this date.
HasDueSuffix(line, due) ==
  /\ Len(line) >= 2
  /\ line[Len(line)] = IsoFormat(due)
  /\ line[Len(line) - 1] = " - due "

\* C11: in every digest message of every backend there is one line per todo
\* shown; the line names the todo after a marker that is the same for two
\* todos exactly if their priorities are in the same class (high, medium,
\* low, any other value), and it ends with a due-date suffix if and only if
\* the todo has a due date.
C11_TodoLineMarkers ==
  DigestTickRan =>
    \A c \in DOMAIN tick.calls : \A m \in Range(PostsOf(tick.calls[c].kind)) :
      LET shown == tick.calls[c].pending
          lines == TodoLines(m)
      IN  /\ Len(lines) = Len(shown)
          /\ \A i \in DOMAIN lines :
               /\ shown[i].title \in Range(Tail(lines[i]))
               /\ IF shown[i].due_date # NULL
                  THEN HasDueSuffix(lines[i], shown[i].due_date)
                  ELSE lines[i][Len(lines[i])] = shown[i].title
          /\ \A i, j \in DOMAIN lines :
               (lines[i][1] = lines[j][1])
                 <=> (PriorityClass(shown[i].priority)
                        = PriorityClass(shown[j].priority))

---------------------------------------------------------------------------
(* The export of the store into the vault.                                 *)

\* Event forms whose titles differ in characters the file name drops.
VaultEventForms ==
  {[title |-> t, category |-> c, website |-> "", relevance_tags |-> "",
    submission_deadline |-> IsoFormat(1)] :
     <<t, c>> \in {<<<<"A">>, "conference">>,
                    <<<<"(", ")", " ", "A">>, "conference">>,
                    <<<<"A">>, "journal">>}}

VaultResearcherForms == [name : {<<"A", "/", "B">>}, affiliation : {""}]

\* The daily_logs table of the database file the application starts on: no
\* log, or the log a daily_log_save of an earlier run has committed.
VaultLogTables ==
  {<<>>,
   <<[id |-> 1, log_date |-> 0, content |-> "notes", hours_worked |-> 2,
      mood |-> ""]>>}

\* The form of the settings page that gives the vault path only.
VaultSettingsForm ==
  [k \in Range(SettingKeys) |->
     IF k = "obsidian_vault_path" THEN "/vault" ELSE ""]

\* The environment that configures no notifier.
QuietEnvs ==
  {e \in PlainEnvs : ~Truthy(e.DISCORD_WEBHOOK_URL) /\ ~EmailConfigured(e)}

InitVault ==
  /\ env \in QuietEnvs
  /\ reminder_days = <<1>>
  /\ today = 0
  /\ events = <<>>
  /\ todos = <<>>
  /\ tick = Idle
  /\ researchers = <<>>
  /\ daily_logs \in VaultLogTables
  /\ milestones = <<>>
  /\ app_settings = <<>>
  /\ vault = <<>>
  /\ requests = <<>>
  /\ clock = 0
  /\ sched = StartedScheduler(9, 0)
  /\ running = <<>>
  /\ users = DefaultUsers("salt1")
  /\ sessions = [c \in Clients |-> <<>>]
  /\ response = NoResponse

NextVault ==
  \/ \E f \in VaultEventForms : event_new(f)
  \/ \E id \in EventIds : event_delete(id)
  \/ \E f \in VaultResearcherForms : researcher_new(f)
  \/ save_integrations(VaultSettingsForm)
  \/ export_obsidian

\* Exports of a store that changes between them.
SpecVault == InitVault /\ [][NextVault]_vars

\* The arguments the export handler passes to export_all in this state.
VaultPath == AppSettingGet(app_settings, "obsidian_vault_path", "")

\* C12: an export_all run right after an export, on the events, researchers
\* and daily logs the export has just written, leaves the vault as it is: the
\* same file paths with the same contents.
C12_ExportIdempotent ==
  [][export_obsidian =>
       ExportAll(vault', VaultPath, AllEvents(events), AllEvents(researchers),
                 AllEvents(daily_logs)) = vault']_vars

\* C12 witness: a vault that an export of the present store leaves as it is,
\* the store holding a researcher, a daily log and two events written to one
\* path, and the vault still holding the note of an event since deleted.
C12_Witness ==
  /\ vault # <<>>
  /\ ExportAll(vault, VaultPath, AllEvents(events), AllEvents(researchers),
               AllEvents(daily_logs)) = vault
  /\ DOMAIN researchers # {} /\ DOMAIN daily_logs # {}
  /\ \E a, b \in DOMAIN events :
       a # b /\ EventPath(BaseDir(VaultPath), events[a])
                  = EventPath(BaseDir(VaultPath), events[b])
  /\ \E p \in DOMAIN vault :
       /\ p.dir[Len(p.dir) - 1] = "Events"
       /\ \A id \in DOMAIN events : EventPath(BaseDir(VaultPath), events[id]) # p

\* The files an export run in this state writes, in its order.
VaultWrites ==
  ExportWrites(BaseDir(VaultPath), AllEvents(events), AllEvents(researchers),
               AllEvents(daily_logs))

\* C13: an export writes the documents of no two entities to one file path:
\* the paths of its writes differ from each other, and after it the vault
\* holds under the path of every event, researcher and daily log the
\* document of that entity.
C13_OneDocumentPerEntity ==
  [][export_obsidian =>
       /\ \A i, j \in DOMAIN VaultWrites :
            i # j => VaultWrites[i].path # VaultWrites[j].path
       /\ \A i \in DOMAIN VaultWrites :
            vault'[VaultWrites[i].path] = VaultWrites[i].content]_vars

\* The characters of a title or name that are alphanumeric, space, hyphen or
\* underscore, in their order.
KeptCharacters(s) ==
  SelectSeq(s, LAMBDA c : c \in AlnumChars \/ c = " " \/ c = "-" \/ c = "_")

\* C14: the file name an export gives the note of an event is the kept
\* characters of the event's title, and the file name it gives the note of a
\* researcher is the kept characters of the researcher's name, each followed
\* by the extension.
C14_FileNameKeepsSafeCharacters ==
  [][export_obsidian =>
       /\ \A id \in DOMAIN events :
            EventPath(BaseDir(VaultPath), events[id]).name
              = KeptCharacters(events[id].title) \o <<".md">>
       /\ \A id \in DOMAIN researchers :
            ResearcherPath(BaseDir(VaultPath), researchers[id]).name
              = KeptCharacters(researchers[id].name) \o <<".md">>]_vars

---------------------------------------------------------------------------
(* Claims about the daily log.                                             *)

\* Forms of the daily-log page: no date (today is taken), a date, a text
\* that is no date; hours left empty, given, or no number.
LogForms ==
  [log_date : {Unset, IsoFormat(0), "soon"}, content : {"notes"},
   hours_worked : {"", "2", "lots"}, mood : {""}]

InitLogs == InitWith(QuietEnvs, {<<1>>})

NextLogs ==
  \/ \E f \in LogForms : daily_log_save_query(f)
  \/ \E r \in 1..MaxRequests : daily_log_save_commit(r)
  \/ NextDay

\* Daily-log saves served in parallel.
SpecLogs == InitLogs /\ [][NextLogs]_vars

\* C15: the store holds at most one DailyLog per log_date, whatever saves
\* have been served and however their queries and commits interleaved: no
\* save adds a second row for a date that has one.
C15_OneLogPerDate ==
  \A a, b \in DOMAIN daily_logs :
    a # b => daily_logs[a].log_date # daily_logs[b].log_date

\* C15 witness: the store holds a log of a date, updated in place by a later
\* save, while a request that found no log of that date before the row was
\* committed is still to commit, and another date has its own log.
C15_Witness ==
  /\ \E r \in DOMAIN requests :
       /\ requests[r].found = NULL
       /\ LogOn(daily_logs, requests[r].log_date) # NULL
  /\ \E a, b \in DOMAIN daily_logs :
       /\ daily_logs[a].log_date # daily_logs[b].log_date
       /\ daily_logs[a].log_date < today
       /\ daily_logs[a].hours_worked = 2
       /\ daily_logs[b].hours_worked = 0

---------------------------------------------------------------------------
(* Claims about the PhD milestones.                                        *)

\* Forms of the new-milestone dialog: with and without a status, without a
\* target date and with a text that is no date.
MilestoneForms ==
  [title : {"thesis"}, status : {Unset, "completed"},
   target_date : {"", "soon"}]

\* Update forms that carry the status, and one whose date does not parse.
MilestoneUpdateForms ==
  [title : {Unset}, status : {"in_progress", "completed"},
   target_date : {Unset, "soon"}]

InitMilestones == InitWith(QuietEnvs, {<<1>>})

NextMilestones ==
  \/ \E f \in MilestoneForms : milestone_new_query(f)
  \/ \E r \in 1..MaxRequests : milestone_new_commit(r)
  \/ \E mid \in MilestoneIds, f \in MilestoneUpdateForms : milestone_update(mid, f)
  \/ \E mid \in MilestoneIds : milestone_delete(mid)

\* Milestone requests served in parallel.
SpecMilestones == InitMilestones /\ [][NextMilestones]_vars

\* C16: every stored milestone whose status is completed has a completed
\* date.
C16_CompletedHasDate ==
  \A id \in DOMAIN milestones :
    milestones[id].status = "completed" => milestones[id].completed_date # NULL

\* C19: no two stored milestones share a sort_order, whatever new-milestone
\* and delete requests have been served and however they interleaved.
C19_SortOrdersDistinct ==
  \A a, b \in DOMAIN milestones :
    a # b => milestones[a].sort_order # milestones[b].sort_order

---------------------------------------------------------------------------
(* Claims about the settings.                                              *)

\* Forms of the settings page: five of its keys filled in or left empty,
\* the others left empty.
SettingsForms ==
  {[k \in Range(SettingKeys) |->
      CASE k = "obsidian_vault_path" -> path
        [] k = "discord_webhook_url" -> url
        [] k = "smtp_port" -> port
        [] k = "reminder_days_before" -> days
        [] k = "daily_digest_hour" -> hour
        [] OTHER -> ""] :
     path \in {"", "/vault"}, url \in {"", "x"}, port \in {"", "587", "abc"},
     days \in {"", "7,3,1", "1,1"}, hour \in {"", "9", "25"}}

InitSettings == InitWith(QuietEnvs, {<<1>>})

NextSettings ==
  \/ \E f \in SettingsForms : save_integrations(f)
  \/ export_obsidian

\* The settings page saved again and again.
SpecSettings == InitSettings /\ [][NextSettings]_vars

\* A key of no row, and a default no row holds as its value.
OtherKey == "theme"
NoValue == "<default>"

\* C17: on every store the settings page leaves, AppSetting.set(k, v) gives
\* a store in which get(k) is v, one row has the key k and every other key
\* has the value it had, and on which a second set(k, v) changes nothing;
\* get(k, default) is default when no row has the key k.
C17_SetIsIdempotentUpsert ==
  \A k \in Range(SettingKeys) \cup {OtherKey} :
    /\ SettingRows(app_settings, k) = {}
         => AppSettingGet(app_settings, k, NoValue) = NoValue
    /\ \A v \in {"", "x", "/vault"} :
         LET after == AppSettingSet(app_settings, k, v)
         IN  /\ AppSettingGet(after, k, NoValue) = v
             /\ Cardinality(SettingRows(after, k)) = 1
             /\ \A other \in (Range(SettingKeys) \cup {OtherKey}) \ {k} :
                  AppSettingGet(after, other, NoValue)
                    = AppSettingGet(app_settings, other, NoValue)
             /\ AppSettingSet(after, k, v) = after

\* C17 witness: the page has saved every key, and saved the vault path a
\* second time, after an export to the path saved first, without adding a
\* row.
C17_Witness ==
  /\ vault # <<>>
  /\ AppSettingGet(app_settings, "obsidian_vault_path", NoValue) = ""
  /\ AppSettingGet(app_settings, "smtp_port", NoValue) = "abc"
  /\ Cardinality(DOMAIN app_settings) = Len(SettingKeys)
  /\ SettingRows(app_settings, OtherKey) = {}

---------------------------------------------------------------------------
(* Claims about the event forms.                                           *)

\* Event forms with a title, with an empty title and with none, and the
\* same of the category; the other inputs are left empty.
PresenceForms ==
  {t @@ c @@ [website |-> "", relevance_tags |-> "", submission_deadline |-> d] :
     t \in {[title |-> "CRYPTO"], [title |-> ""], [edition |-> ""]},
     c \in {[category |-> "journal"], [category |-> ""], [city |-> ""]},
     d \in {"", IsoFormat(1)}}

InitPresence == InitWith(QuietEnvs, {<<1>>})

NextPresence ==
  \/ EventRequests(PresenceForms)
  \/ \E id \in EventIds : event_pin(id)

\* The event handlers under forms of every shape.
SpecPresence == InitPresence /\ [][NextPresence]_vars

\* C18: every stored event has a title that is not empty and a category that
\* is not empty.
C18_TitleAndCategoryPresent ==
  \A id \in DOMAIN events :
    events[id].title # "" /\ events[id].category # ""

---------------------------------------------------------------------------
(* Claims about the errors of a tick.                                      *)

\* The sends of the job just run that the transport failed.
FailedPosts == {i \in DOMAIN tick.posts : ~tick.posts[i].delivered}

\* C20: no tick raises to the scheduler, whatever the environment, the
\* store and the transport do: every tick returns, having logged one error
\* for each send that failed, with the name of the channel in it and, in a
\* deadline-check tick, the title of an event it was reminding of.
C20_NoExceptionLeavesTick ==
  tick.job # "none" =>
    /\ ~tick.raised
    /\ Len(tick.errors) = Cardinality(FailedPosts)
    /\ \A i \in DOMAIN tick.errors :
         /\ \E k \in Range(tick.notifiers) : k \in Range(tick.errors[i])
         /\ tick.job = "deadline" =>
              \E c \in Range(tick.calls) : c.event.title \in Range(tick.errors[i])

---------------------------------------------------------------------------
(* Claims about the triggers.                                              *)

\* Environments of the scheduler: the e-mail backend, its port a number or
\* not; the digest hour given and the reminder days left unset, or the
\* other way round.
CronEnvs ==
  {base @@ given :
     base \in {e \in Envs : /\ EmailConfigured(e)
                            /\ e.SMTP_SERVER = "x"
                            /\ e.DISCORD_WEBHOOK_URL = ""
                            /\ e.SMTP_PORT \in {Unset, "abc"}},
     given \in {[DAILY_DIGEST_HOUR |-> <<"2", "3">>],
                [REMINDER_DAYS_BEFORE |-> <<"2", ",", "1">>]}}

\* The half hours of the day at which the process is started.
StartSlots == {0, 20}

\* The events table of the database file the process starts on: the event
\* an event_new of an earlier run has committed, due on day 1.
StoredEvents ==
  1 :> ([pinned |-> FALSE]
          @@ EventFromForm(1, CHOOSE f \in ConfigEventForms : TRUE))

InitCron ==
  /\ env \in CronEnvs
  /\ clock \in StartSlots
  /\ sched = NoScheduler
  /\ reminder_days = <<>>
  /\ today = 0
  /\ events = StoredEvents
  /\ todos = <<>>
  /\ tick = Idle
  /\ researchers = <<>>
  /\ daily_logs = <<>>
  /\ milestones = <<>>
  /\ app_settings = <<>>
  /\ vault = <<>>
  /\ requests = <<>>
  /\ running = <<>>
  /\ users = DefaultUsers("salt1")
  /\ sessions = [c \in Clients |-> <<>>]
  /\ response = NoResponse

NextCron ==
  \/ init_scheduler
  \/ advance
  \/ daily_digest
  \/ send_digests
  \/ deadline_check
  \/ next_reminders

\* The two jobs on their triggers, day after day.
SpecCron == InitCron /\ [][NextCron]_vars

\* The same with the clock going on and the scheduler thread running each
\* job at its next run time; a send may take for ever.
SpecCronLive ==
  /\ SpecCron
  /\ WF_vars(advance)
  /\ WF_vars(daily_digest)
  /\ WF_vars(deadline_check)

\* The instant at which the trigger of job j fires on day d.
FireInstant(j, d) ==
  d * SlotsPerDay + 2 * sched.jobs[j].hour + sched.jobs[j].minute \div 30

\* The job j has fired at its time of day d, and the run was started.
RanAt(j, d) ==
  \E i \in DOMAIN sched.jobs[j].runs :
    /\ sched.jobs[j].runs[i].at = FireInstant(j, d)
    /\ sched.jobs[j].runs[i].ran

\* C21: a started scheduler keeps both jobs registered whatever their runs
\* do, and after a run of a job that raised or logged a failed send, the job
\* fires and is run again at its next scheduled time (when the calendar of
\* the model reaches that time).
C21_TriggersSurviveFailures ==
  /\ [](sched.state = "started" => DOMAIN sched.jobs = JobNames)
  /\ \A j \in JobNames : \A d \in 0..MaxDay :
       [](( /\ sched.state = "started"
            /\ j \in DOMAIN sched.jobs
            /\ sched.jobs[j].due_after_failure = FireInstant(j, d) )
          => <>(j \in DOMAIN sched.jobs /\ RanAt(j, d)))

\* C21 witness: on the second day both jobs have fired and been run a second
\* time, each at the next run time that followed a failed run of the first
\* day, the run of the deadline check having raised as a whole.
C21_Witness ==
  /\ sched.state = "started"
  /\ env.SMTP_PORT = "abc"
  /\ \A j \in JobNames :
       /\ Len(sched.jobs[j].runs) = 2
       /\ sched.jobs[j].runs[2].ran
       /\ sched.jobs[j].runs[2].at = sched.jobs[j].runs[1].at + SlotsPerDay
  /\ tick.job = "deadline" /\ tick.raised

---------------------------------------------------------------------------
(* Claims about the start of the scheduler.                                *)

\* Texts of the digest hour: a number with and without blanks around it,
\* the empty text, a word, and numbers that are no hour.
HourTexts ==
  {<<"9">>, <<" ", "8", " ">>, <<>>, <<"a", "b", "c">>, <<"2", "4">>,
   <<"-", "1">>}

\* Texts of the reminder days: one offset, two with a blank, the empty
\* text, an empty entry, a word.
ReminderDaysTexts ==
  {<<"1">>, <<"2", ",", " ", "1">>, <<>>, <<"1", ",", ",", "2">>, <<"x">>}

\* Environments with the webhook and the e-mail backend configured, the
\* port, the digest hour and the reminder days each unset, well formed or
\* malformed.
StartupEnvs ==
  LET bases == {e \in Envs : /\ EmailConfigured(e)
                             /\ e.SMTP_SERVER = "x"
                             /\ e.DISCORD_WEBHOOK_URL = "x"
                             /\ e.SMTP_PORT \in {Unset, "", "abc"}}
      withHour == bases \cup {e @@ [DAILY_DIGEST_HOUR |-> h] :
                                e \in bases, h \in HourTexts}
  IN  withHour \cup {e @@ [REMINDER_DAYS_BEFORE |-> d] :
                       e \in withHour, d \in ReminderDaysTexts}

InitStartup ==
  /\ env \in StartupEnvs
  /\ clock = 16
  /\ sched = NoScheduler
  /\ reminder_days = <<>>
  /\ today = 0
  /\ events = StoredEvents
  /\ todos = <<>>
  /\ tick = Idle
  /\ researchers = <<>>
  /\ daily_logs = <<>>
  /\ milestones = <<>>
  /\ app_settings = <<>>
  /\ vault = <<>>
  /\ requests = <<>>
  /\ running = <<>>
  /\ users = DefaultUsers("salt1")
  /\ sessions = [c \in Clients |-> <<>>]
  /\ response = NoResponse

\* The start of the scheduler under every configuration, and the jobs of
\* the scheduler it starts.
SpecStartup == InitStartup /\ [][NextCron]_vars

\* C22: under every configuration, init_scheduler returns; when the digest
\* hour is well formed, both jobs are registered, and in every tick the
\* job returns with the webhook backend active, a port that is no number
\* leaving the e-mail backend alone not activated.
C22_StartupSurvivesBadConfig ==
  /\ sched.state # "failed"
  /\ (sched.state = "started" /\ IntParses(DigestHourText(env))
        /\ IntOf(DigestHourText(env)) \in CronHours)
       => DOMAIN sched.jobs = JobNames
  /\ tick.job # "none" =>
       /\ ~tick.raised
       /\ "discord" \in Range(tick.notifiers)
       /\ "email" \in Range(tick.notifiers)
            <=> SmtpPortString(env) \in IntStrings

---------------------------------------------------------------------------
(* Claims about the saved configuration.                                   *)

\* The variable of the environment and the key of the settings page that
\* name the same value.
SettingOfEnv ==
  [DISCORD_WEBHOOK_URL |-> "discord_webhook_url",
   SMTP_SERVER |-> "smtp_server", SMTP_PORT |-> "smtp_port",
   SMTP_USERNAME |-> "smtp_username", SMTP_PASSWORD |-> "smtp_password",
   EMAIL_TO |-> "email_to", REMINDER_DAYS_BEFORE |-> "reminder_days_before",
   DAILY_DIGEST_HOUR |-> "daily_digest_hour"]

\* The configuration in force: each value as the settings page has saved
\* it last, and as the environment gives it while no row holds it.
SavedConfig(rows, e) ==
  [k \in {v \in DOMAIN SettingOfEnv :
            v \in DOMAIN e \/ SettingRows(rows, SettingOfEnv[v]) # {}} |->
     IF SettingRows(rows, SettingOfEnv[k]) # {}
     THEN AppSettingGet(rows, SettingOfEnv[k], "") ELSE e[k]]

\* Forms of the settings page with every value of the reminders filled in
\* and well formed.
SavedForms ==
  {[k \in Range(SettingKeys) |->
      CASE k = "discord_webhook_url" -> url
        [] k \in {"smtp_server", "smtp_username", "smtp_password",
                  "email_to"} -> cred
        [] k = "smtp_port" -> port
        [] k = "reminder_days_before" -> days
        [] k = "daily_digest_hour" -> hour
        [] OTHER -> ""] :
     url \in {"", "x"}, cred \in {"", "x"}, port \in {"587", "25"},
     days \in {<<"1">>, <<"2", ",", "1">>}, hour \in {<<"8">>, <<"9">>}}

\* Environments of a process whose settings page is used: one backend
\* configured, the reminder days given.
SavedEnvs ==
  {base @@ [REMINDER_DAYS_BEFORE |-> d] :
     base \in {e \in PlainEnvs :
                 (e.DISCORD_WEBHOOK_URL = "x") # (e.SMTP_SERVER = "x")},
     d \in {<<"1">>, <<"2">>}}

InitSaved ==
  /\ env \in SavedEnvs
  /\ clock = 0
  /\ sched = NoScheduler
  /\ reminder_days = <<>>
  /\ today = 0
  /\ events = StoredEvents
  /\ todos = <<>>
  /\ tick = Idle
  /\ researchers = <<>>
  /\ daily_logs = <<>>
  /\ milestones = <<>>
  /\ app_settings = <<>>
  /\ vault = <<>>
  /\ requests = <<>>
  /\ running = <<>>
  /\ users = DefaultUsers("salt1")
  /\ sessions = [c \in Clients |-> <<>>]
  /\ response = NoResponse

NextSaved ==
  \/ init_scheduler
  \/ \E f \in SavedForms : sched.state = "started" /\ save_integrations(f)
  \/ sched.state = "started" /\ check_deadlines
  \/ sched.state = "started" /\ send_daily_digest

\* The settings page saved between the runs of the jobs of one process.
SpecSaved == InitSaved /\ [][NextSaved]_vars

\* C23: every tick computes its active backends and its due set from the
\* configuration in force when it starts: a run of either job is a run on
\* the credentials and the reminder days saved last.
C23_TicksReadFreshConfig ==
  LET c == SavedConfig(app_settings, env)
  IN  /\ tick.job = "deadline" =>
           \E fails \in SUBSET ReminderSends(c, events, ParsedReminderDays(c),
                                             today) :
             tick = CheckDeadlinesResult(c, events, ParsedReminderDays(c),
                                         today, fails)
      /\ tick.job = "digest" =>
           \E upcoming \in UpcomingResults(events, ParsedReminderDays(c), today),
              pending \in PendingResults(todos),
              fails \in SUBSET Range(GetNotifiers(c).notifiers) :
             tick = SendDailyDigestResult(c, ParsedReminderDays(c), today,
                                          upcoming, pending, fails)

\* The database file and the environment a process is started on after the
\* settings page of an earlier run was saved.
InitRestarted ==
  /\ env \in SavedEnvs
  /\ clock = 0
  /\ sched = NoScheduler
  /\ reminder_days = <<>>
  /\ today = 0
  /\ events = StoredEvents
  /\ todos = <<>>
  /\ tick = Idle
  /\ researchers = <<>>
  /\ daily_logs = <<>>
  /\ milestones = <<>>
  /\ app_settings \in {SaveIntegrations(<<>>, SettingKeys, f) : f \in SavedForms}
  /\ vault = <<>>
  /\ requests = <<>>
  /\ running = <<>>
  /\ users = DefaultUsers("salt1")
  /\ sessions = [c \in Clients |-> <<>>]
  /\ response = NoResponse

NextRestarted ==
  \/ init_scheduler
  \/ restart
  \/ sched.state = "started" /\ check_deadlines
  \/ sched.state = "started" /\ send_daily_digest

\* Processes started, and started again, after the settings were saved.
SpecRestarted == InitRestarted /\ [][NextRestarted]_vars

\* C24: a scheduler started after the settings page was saved runs on the
\* saved configuration: its jobs fire at the saved digest hour, it holds
\* the saved reminder days, and a tick builds the saved backends.
C24_RestartConsumesSaved ==
  LET c == SavedConfig(app_settings, env)
  IN  /\ sched.state # "failed"
      /\ sched.state = "started" =>
           /\ reminder_days = ParsedReminderDays(c)
           /\ \A j \in DOMAIN sched.jobs :
                sched.jobs[j].hour = IntOf(DigestHourText(c))
      /\ tick.job # "none" =>
           /\ tick.raised = GetNotifiers(c).raised
           /\ tick.notifiers = GetNotifiers(c).notifiers

---------------------------------------------------------------------------
(* Claims about the times of the triggers.                                 *)

\* The half hour of the day at which the configuration puts the trigger of
\* job j: the digest hour, and half an hour later for the deadline check.
ConfiguredSlot(j) ==
  2 * IntOf(DigestHourText(env)) + (IF j = "deadline" THEN 1 ELSE 0)

---------------------------------------------------------------------------
(* Claims about the ticks in progress.                                     *)

\* C26: the two ticks never run at the same time: at most one tick is in
\* progress, and a tick starts or ends only while no other tick is in
\* progress, however long a delivery of the earlier tick takes.
C26_TicksNeverOverlap ==
  /\ Cardinality(DOMAIN running) <= 1
  /\ tick.job # "none" => running = <<>>

---------------------------------------------------------------------------
(* Claims about the day a reminder is built on.                            *)

\* C28: every reminder of a deadline-check tick shows, as the days left,
\* the offset for which the tick matched the event (the days from the day
\* the tick read to the deadline), and is urgent exactly when that offset
\* is at most 3.
C28_DaysLeftIsMatchedOffset ==
  tick.job = "deadline" =>
    \A i \in DOMAIN tick.posts :
      LET m == tick.posts[i]
          d == tick.calls[i].event.submission_deadline - tick.day
      IN  /\ ToString(d) \in Shown(m)
          /\ IsUrgent(m) <=> d <= UrgentDays

---------------------------------------------------------------------------
(* Claims about the login.                                                 *)

\* A password change_password accepts and one it rejects as too short.
NewPasswords == {<<"s", "e", "c", "r", "e", "t">>, <<"a", "b", "c">>}

\* Passwords a client may post to /login.
LoginPasswords == NewPasswords \cup {DefaultPassword, <<>>}

\* Protected routes whose handlers write the store.
WritingRoutes == {"todo_new", "daily_log_save", "settings"}

AuthLogForms ==
  [log_date : {Unset}, content : {"notes"}, hours_worked : {"2"}, mood : {""}]

AuthSettingsForms ==
  {[k \in Range(SettingKeys) |->
      IF k = "discord_webhook_url" THEN "x" ELSE ""]}

InitAuth == InitWith(QuietEnvs, {<<1>>})

NextAuth ==
  \/ \E c \in Clients, p \in LoginPasswords : login(c, p)
  \/ \E c \in Clients : logout(c)
  \/ \E c \in Clients, route \in WritingRoutes : login_required(c, route)
  \/ \E f \in ConfigTodoForms : Admitted("todo_new") /\ todo_new(f)
  \/ \E f \in AuthLogForms :
       Admitted("daily_log_save") /\ requests = <<>> /\ daily_log_save_query(f)
  \/ \E r \in 1..MaxRequests : daily_log_save_commit(r)
  \/ \E p \in NewPasswords : change_password(p)
  \/ \E f \in AuthSettingsForms : Admitted("settings") /\ save_integrations(f)

\* Clients that log in and out and post to protected routes.
SpecAuth == InitAuth /\ [][NextAuth]_vars

\* The tables of the entity store and the password.
EntityStore ==
  <<events, todos, researchers, daily_logs, milestones, app_settings, users>>

\* The session of the request being served holds user_id.
ServedWithUser ==
  /\ response.status = "admitted"
  /\ response.client \in Clients
  /\ "user_id" \in DOMAIN sessions[response.client]

\* C27: the store changes only in the handler of a request whose session
\* holds user_id (at once, or when a request it has put in flight commits);
\* user_id enters a session only in a login step whose password matches
\* the stored hash, and logout removes it; a request to a protected route
\* from a session without user_id is redirected to the login page and
\* leaves the store as it is.
C27_StoreNeedsLogin ==
  /\ [](response.status = "admitted" => ServedWithUser)
  /\ [][/\ EntityStore' # EntityStore =>
             \/ ServedWithUser
             \/ \E r \in DOMAIN requests : r \notin DOMAIN requests'
        /\ DOMAIN requests' \ DOMAIN requests # {} => ServedWithUser
        /\ \A c \in Clients :
             /\ ("user_id" \notin DOMAIN sessions[c]
                   /\ "user_id" \in DOMAIN sessions'[c])
                  => \E p \in LoginPasswords :
                       /\ login(c, p)
                       /\ DOMAIN users # {}
                       /\ CheckPw(p, users[Ascending(DOMAIN users)[1]].password_hash)
             /\ (response' # response /\ response'.route = "logout"
                   /\ response'.client = c)
                  => "user_id" \notin DOMAIN sessions'[c]
             /\ ("user_id" \notin DOMAIN sessions[c]
                   /\ \E route \in WritingRoutes : login_required(c, route))
                  => /\ response'.status = "redirect_login"
                     /\ EntityStore' = EntityStore]_vars

\* A client has logged in, added a todo, saved a daily log, saved the
\* settings and changed the password, has logged out, and its next post to
\* a protected route is redirected.
C27_Witness ==
  /\ todos # <<>>
  /\ daily_logs # <<>>
  /\ app_settings # <<>>
  /\ ~CheckPw(DefaultPassword, users[1].password_hash)
  /\ \A c \in Clients : sessions[c] = <<>>
  /\ response.route = "todo_new"
  /\ response.status = "redirect_login"

===========================================================================
